---- MODULE Spec2Model ----
(***************************************************************************)
(* Orchestration layer of the rewards bot (src/src/index.ts):              *)
(*   - MicrosoftRewardsBot.runTasks: the per-process account loop with     *)
(*     job-state skip, ban / compromised handling and global standby;      *)
(*   - MicrosoftRewardsBot.runMaster / runWorker and main's bufferChunk:   *)
(*     the primary/worker protocol of cluster mode.                        *)
(* Accounts are numbered 1..n (their position in the account list stands   *)
(* for the e-mail address); calendar days are numbered 0..MaxDay.          *)
(***************************************************************************)
EXTENDS Integers, Sequences, FiniteSets, TLC

\* ---------------------------------------------------------------- bounds
MaxAccounts == 2
MaxDay == 1
MaxRuns == 2
MaxClusters == 2
MaxCrashes == 2

Accounts == 1..MaxAccounts
Days == 0..MaxDay
\* cluster.fork() numbers the workers 1, 2, 3, ... in the order of the forks
WorkerIds == 1..(MaxClusters + MaxCrashes)

VARIABLES
    \* configuration and environment, fixed for the life of the process
    config,                \* loadConfig(): the fields the orchestration reads
    envSkipOverride,       \* REWARDS_DISABLE_ACCOUNT_SKIP is 1 / true / yes
    accounts,              \* this.accounts, the ordered account list
    \* the outside world
    day,                   \* the calendar day Util.getFormattedDate() returns
    jobState,              \* job-state files: set of [email, day, runId] records
    \* MicrosoftRewardsBot fields
    accountSummaries,      \* this.accountSummaries
    bannedTriggered,       \* this.bannedTriggered (0 = null, else the e-mail)
    globalStandby,         \* this.globalStandby
    compromisedModeActive, \* this.compromisedModeActive
    \* position of run() / runTasks() and its locals
    pc,                    \* "idle" | "loop" | "desktop" | "mobile" | "parallel" | "after_loop" | "returned"
    runs,                  \* number of run() calls started by this process
    pass,                  \* currentPass
    idx,                   \* index of the for-of loop over accounts (1-based)
    accountDayKey,         \* runTasks local: day key taken when runTasks starts
    banned,                \* runTasks local, per account: banned.status
    dState,                \* desktop flow of the current account: none | running | done
    mState,                \* mobile flow of the current account: none | running | done
    \* observation of the current runTasks call (not program state)
    completeAtStart,       \* <<email, day>> pairs that had a record when runTasks began
    resetDone,             \* resetAllJobStates ran in this runTasks call
    invoked,               \* e-mails for which a flow was started in this call
    rerun,                 \* e-mails in invoked that had a record for that day at the start
    skipped,               \* e-mails the skip check passed over in this call
    concluded,             \* per sendConclusion call of runTasks so far: length of the list it was handed
    \* cluster mode, primary process (runMaster)
    masterStarted,         \* runMaster's executor has run
    activeWorkers,         \* this.activeWorkers
    workerChunkMap,        \* workerChunkMap: worker id -> <<chunk>>, <<>> when absent
    resolved,              \* finishRun's "resolved" flag
    nextWorkerId,          \* id cluster.fork() gives to the next worker
    \* cluster mode, worker processes and the IPC channel
    worker,                \* worker id -> state of that worker process
    crashes,               \* number of worker crashes so far
    \* observation of the cluster run (not program state)
    initialForks,          \* workers forked by runMaster's for loop
    finalSummaries,        \* <<list>> handed to sendConclusion by finishRun
    aliveAtFinish,         \* workers not yet exited when finishRun ran
    \* main(): the process around the bot (crash recovery, exit)
    proc,                  \* crashState, pending restart timers, exit status
    \* one call of computeWaitForAllowedWindow
    windowCall,            \* its inputs (windows, clock) and its return value
    \* one iteration of the runTasks loop with all of its locals
    iteration,             \* flow results, points, errors, banned, summary
    \* the collaborators of the orchestration
    logger,                \* Logger.ts: logging configuration, webhook buffer, posts
    reportError,           \* api/report-error.js: recorded error ids, webhook calls
    validator,             \* StartupValidator: recorded errors, result of validate()
    notify                 \* end of a run: conclusion and security alerts sent

vars == <<config, envSkipOverride, accounts, day, jobState, accountSummaries,
          bannedTriggered, globalStandby, compromisedModeActive, pc, runs, pass,
          idx, accountDayKey, banned, dState, mState,
          completeAtStart, resetDone, invoked, rerun, skipped, concluded,
          masterStarted, activeWorkers, workerChunkMap, resolved, nextWorkerId,
          worker, crashes, initialForks, finalSummaries, aliveAtFinish,
          proc, windowCall, iteration, logger, reportError, validator, notify>>

clusterVars == <<masterStarted, activeWorkers, workerChunkMap, resolved,
                 nextWorkerId, worker, crashes, initialForks, finalSummaries,
                 aliveAtFinish>>
cfgVars == <<config, envSkipOverride, accounts>>
serviceVars == <<logger, reportError, validator, notify>>
sideVars == <<proc, windowCall, iteration, serviceVars>>
obsVars == <<completeAtStart, resetDone, invoked, rerun, skipped, concluded>>

\* This process's runId (Math.random() in the field initialiser); records that
\* an earlier process left in the job-state directory carry OtherRunId.
ThisRunId == 1
OtherRunId == 0

Min(a, b) == IF a <= b THEN a ELSE b

\* ---------------------------------------------------------- job state store
\* JobState.isAccountComplete(email, dayKey): a record exists for the key.
IsAccountComplete(js, email, dayKey) ==
    \E r \in js : r.email = email /\ r.day = dayKey

\* JobState.markAccountComplete(email, dayKey, info): upsert, last write wins.
MarkAccountComplete(js, email, dayKey, info) ==
    {r \in js : ~(r.email = email /\ r.day = dayKey)}
        \cup {[email |-> email, day |-> dayKey, runId |-> info]}

\* isAccountSkipOverride()
IsAccountSkipOverride == envSkipOverride

ShouldSkipAccount_NoOverride(email, dayKey) ==
    IF ~config.jobStateEnabled THEN FALSE
    ELSE IF ~config.skipCompletedAccounts THEN FALSE
    ELSE IF config.passesPerRun > 1 THEN FALSE
    ELSE IsAccountComplete(jobState, email, dayKey)

\* shouldSkipAccount(email, dayKey)
ShouldSkipAccount(email, dayKey) ==
    IF ~config.jobStateEnabled THEN FALSE
    ELSE IF ~config.skipCompletedAccounts THEN FALSE
    ELSE IF config.passesPerRun > 1 THEN FALSE
    ELSE IF IsAccountSkipOverride THEN FALSE
    ELSE IsAccountComplete(jobState, email, dayKey)

\* persistAccountCompletion(email, dayKey, summary): the job state afterwards
PersistAccountCompletion(js, email, dayKey) ==
    IF ~config.jobStateEnabled THEN js
    ELSE IF ~config.skipCompletedAccounts THEN js
    ELSE IF config.passesPerRun > 1 THEN js
    ELSE IF IsAccountSkipOverride THEN js
    ELSE MarkAccountComplete(js, email, dayKey, ThisRunId)

\* promptResetJobState(): config flag, environment flag, non-interactive
\* detection, then the answer typed at the prompt.
PromptResetJobState(autoResetOnComplete, envAutoReset, isNonInteractive, answerYes) ==
    IF autoResetOnComplete THEN TRUE
    ELSE IF envAutoReset THEN TRUE
    ELSE IF isNonInteractive THEN FALSE
    ELSE answerYes

\* The answers promptResetJobState() can give, over its inputs.
PromptAnswers ==
    {PromptResetJobState(autoReset, envAuto, nonInteractive, answerYes) :
        autoReset \in BOOLEAN, envAuto \in BOOLEAN,
        nonInteractive \in BOOLEAN, answerYes \in BOOLEAN}

\* The job-state directory holds one file per day that has a record.
DayFiles(js) == {r.day : r \in js}

\* resetAllJobStates(): unlink every day file; an unlink that throws is
\* ignored, so the files of the days in `locked` survive.
ResetAllJobStates(js, locked) ==
    IF ~config.jobStateEnabled THEN js
    ELSE {r \in js : r.day \in locked}

\* ------------------------------------------------------------ initial state
\* "cr.restartFailedWorkerAttempts ?? 1"
DefaultRestartFailedWorkerAttempts == 1

\* A worker process that was never forked.  Optional values are sequences
\* of length 0 (undefined) or 1.
NoWorker ==
    [status |-> "none",        \* none | init | waiting | running | finishing | exited
     inbox |-> <<>>,           \* chunk message sent by the primary, not yet delivered
     bufferListening |-> FALSE,\* main's bufferChunk listener is registered
     globalChunk |-> <<>>,     \* global.__workerChunk
     chunk |-> <<>>,           \* the chunk runWorker's promise resolved with
     obtained |-> 0,           \* times that promise's resolve was called
     pos |-> 0,                \* position of runTasks in the chunk
     summaries |-> <<>>,       \* the worker's this.accountSummaries
     outbox |-> <<>>,          \* summary message sent to the primary, not yet delivered
     exitCode |-> 0,           \* exit code, once exited
     exitSeen |-> FALSE,       \* the primary's 'exit' handler ran for it
     restartAttempts |-> 0,    \* the _restartAttempts property of the Worker object
     slot |-> 0,               \* index of the original chunk this worker descends from
     sent |-> <<>>]            \* the chunk the primary sent it

InitCluster ==
    /\ masterStarted = FALSE
    /\ activeWorkers = config.clusters
    /\ workerChunkMap = [id \in WorkerIds |-> <<>>]
    /\ resolved = FALSE
    /\ nextWorkerId = 1
    /\ worker = [id \in WorkerIds |-> NoWorker]
    /\ crashes = 0
    /\ initialForks = 0
    /\ finalSummaries = <<>>
    /\ aliveAtFinish = {}

\* passesPerRun: 1 (the default) or more.  The code reads it as the number
\* of runTasks calls of one run() and in the test "passesPerRun > 1".
PassesPerRunValues == {1, 2}

\* The configurations a process is started with.  Two settings are left at
\* their default where the code never reads them: skipCompletedAccounts when
\* the job state is disabled, parallel when dryRun is set.
Configs ==
    {c \in [passesPerRun : PassesPerRunValues,
            skipCompletedAccounts : BOOLEAN,
            jobStateEnabled : BOOLEAN,
            stopOnBan : BOOLEAN,
            parallel : BOOLEAN,
            dryRun : BOOLEAN,
            clusters : {1},
            restartFailedWorker : {FALSE},
            restartFailedWorkerAttempts : {DefaultRestartFailedWorkerAttempts}] :
        /\ ~c.jobStateEnabled => c.skipCompletedAccounts
        /\ c.dryRun => ~c.parallel}

NoStandby == [active |-> FALSE, reason |-> "none"]

InitBot ==
    /\ accountSummaries = <<>>
    /\ bannedTriggered = 0
    /\ globalStandby = NoStandby
    /\ compromisedModeActive = FALSE
    /\ pc = "idle"
    /\ runs = 0
    /\ pass = 0
    /\ idx = 0
    /\ accountDayKey = 0
    /\ banned = FALSE
    /\ dState = "none"
    /\ mState = "none"
    /\ completeAtStart = {}
    /\ resetDone = FALSE
    /\ invoked = {}
    /\ rerun = {}
    /\ skipped = {}
    /\ concluded = <<>>

\* "config.crashRecovery.maxRestarts ?? 2"
DefaultMaxRestarts == 2

\* The process main() runs in, before bootstrap() is first called.
\* crashRecovery.maxRestarts is <<>> when unset, <<n>> when set to n.
ProcAtStart(autoRestart, maxRestarts, scheduling, clustered) ==
    [autoRestart |-> autoRestart,   \* config.crashRecovery.autoRestart
     maxRestarts |-> maxRestarts,   \* config.crashRecovery.maxRestarts
     scheduling |-> scheduling,     \* config.scheduling.enabled
     clustered |-> clustered,       \* config.clusters > 1
     started |-> FALSE,             \* main() has called bootstrap()
     restarts |-> 0,                \* crashState.restarts
     timers |-> 0,                  \* restart callbacks pending in setTimeout
     running |-> 0,                 \* bootstrap() calls awaiting rewardsBot.run()
     fatals |-> 0,                  \* fatal errors raised so far
     conclusionFailed |-> FALSE,    \* a sendConclusion call of this process threw
     lastRun |-> "none",            \* how the latest initialize() + run() settled
     lastStandby |-> FALSE,         \* its runTasks returned from the security-standby branch
     exited |-> FALSE,              \* process.exit was called
     exitCode |-> 0]                \* its argument

\* The code of main() around the bot is not followed.
NoProc == [started |-> FALSE]

\* No call of computeWaitForAllowedWindow is in progress.
NoWindowCall == [returned |-> FALSE]

\* No detailed loop iteration is in progress.
NoIteration == [phase |-> "none"]

\* The logger, the error-report endpoint, the startup validator and the
\* notifications of a run's end are not followed.
NoLogger == [enabled |-> FALSE]
NoReportError == [enabled |-> FALSE]
NoValidator == [enabled |-> FALSE]
NoNotify == [enabled |-> FALSE]

InitServices ==
    /\ logger = NoLogger
    /\ reportError = NoReportError
    /\ validator = NoValidator
    /\ notify = NoNotify

InitSide ==
    /\ proc = NoProc
    /\ windowCall = NoWindowCall
    /\ iteration = NoIteration
    /\ InitServices

Init ==
    /\ config \in Configs
    /\ envSkipOverride \in BOOLEAN
    /\ \E n \in 1..MaxAccounts :
          /\ accounts = [i \in 1..n |-> i]
          /\ \E done \in SUBSET (1..n) :
                jobState = {[email |-> a, day |-> 0, runId |-> OtherRunId] : a \in done}
    /\ day = 0
    /\ InitBot
    /\ InitCluster
    /\ InitSide


\* ------------------------------------------------------------ the world
\* Midnight passes: Util.getFormattedDate() returns the next day key.  The
\* day is read when runTasks starts (accountDayKey) and at the loop head
\* (currentDayKey); a change at any other moment is seen only at the next
\* such point.
DayTick ==
    /\ day < MaxDay
    /\ pc \in {"idle", "loop", "returned"}
    /\ day' = day + 1
    /\ UNCHANGED <<cfgVars, sideVars, clusterVars, jobState, accountSummaries, bannedTriggered,
                   globalStandby, compromisedModeActive, pc, runs, pass, idx,
                   accountDayKey, banned, dState, mState, obsVars>>

\* ------------------------------------------------------------ runTasks
\* Entry of runTasks(accounts, currentPass, totalPasses) up to the for loop:
\* the all-completed check, the reset prompt and the multi-pass reset.
BeginRunTasks(currentPass) ==
    LET totalPasses == config.passesPerRun
        key == day
        allCompleted ==
            \A i \in 1..Len(accounts) : ShouldSkipAccount(accounts[i], key)
    IN  /\ pass' = currentPass
        /\ accountDayKey' = key
        /\ completeAtStart' = {<<r.email, r.day>> : r \in jobState}
        /\ invoked' = {}
        /\ rerun' = {}
        /\ skipped' = {}
        /\ banned' = FALSE
        /\ dState' = "none"
        /\ mState' = "none"
        /\ IF allCompleted /\ Len(accounts) > 0 /\ currentPass = 1 /\ totalPasses = 1
           THEN \E shouldReset \in PromptAnswers :
                   IF shouldReset
                   THEN /\ \E locked \in SUBSET DayFiles(jobState) :
                              jobState' = ResetAllJobStates(jobState, locked)
                        /\ resetDone' = TRUE
                        /\ idx' = 1
                        /\ pc' = "loop"
                   ELSE /\ UNCHANGED jobState
                        /\ resetDone' = FALSE
                        /\ idx' = 0
                        /\ pc' = "returned"
           ELSE IF allCompleted /\ Len(accounts) > 0 /\ currentPass > 1
           THEN /\ \E locked \in SUBSET DayFiles(jobState) :
                      jobState' = ResetAllJobStates(jobState, locked)
                /\ resetDone' = TRUE
                /\ idx' = 1
                /\ pc' = "loop"
           ELSE /\ UNCHANGED jobState
                /\ resetDone' = FALSE
                /\ idx' = 1
                /\ pc' = "loop"

\* run(), single-process branch: the first pass of a run.  A process in
\* scheduled mode calls run() again for every scheduled execution.
StartRun ==
    /\ pc = "idle"
    /\ runs < MaxRuns
    /\ runs' = runs + 1
    /\ BeginRunTasks(1)
    /\ UNCHANGED <<cfgVars, sideVars, clusterVars, day, accountSummaries, bannedTriggered,
                   globalStandby, compromisedModeActive, concluded>>

\* run(): runTasks returned and another pass is due.
NextPass ==
    /\ pc = "returned"
    /\ pass < config.passesPerRun
    /\ BeginRunTasks(pass + 1)
    /\ UNCHANGED <<cfgVars, sideVars, clusterVars, day, accountSummaries, bannedTriggered,
                   globalStandby, compromisedModeActive, runs, concluded>>

\* run(): the last pass returned; the locals of runTasks and the observation
\* of that call are gone.
RunComplete ==
    /\ pc = "returned"
    /\ pass >= config.passesPerRun
    /\ pc' = "idle"
    /\ pass' = 0
    /\ accountDayKey' = 0
    /\ completeAtStart' = {}
    /\ resetDone' = FALSE
    /\ invoked' = {}
    /\ rerun' = {}
    /\ skipped' = {}
    /\ UNCHANGED <<cfgVars, sideVars, clusterVars, day, jobState, accountSummaries, bannedTriggered,
                   globalStandby, compromisedModeActive, runs, idx,
                   banned, dState, mState, concluded>>

StandbyBlocks_Never == FALSE

StandbyBlocks_OrCompromised == globalStandby.active \/ compromisedModeActive

\* runTasks loop head: "if (this.globalStandby.active) break"
StandbyBlocks == globalStandby.active

\* runTasks loop head: "if (stopOnBan === true && this.bannedTriggered) break"
StopOnBanBlocks == config.stopOnBan /\ bannedTriggered # 0

\* The for loop is exhausted or left by one of the two break statements.
LoopExit ==
    /\ pc = "loop"
    /\ \/ idx > Len(accounts)
       \/ StandbyBlocks
       \/ StopOnBanBlocks
    /\ pc' = "after_loop"
    /\ UNCHANGED <<cfgVars, sideVars, clusterVars, day, jobState, accountSummaries, bannedTriggered,
                   globalStandby, compromisedModeActive, runs, pass, idx,
                   accountDayKey, banned, dState, mState, obsVars>>

LoopEnters ==
    /\ pc = "loop"
    /\ idx <= Len(accounts)
    /\ ~StandbyBlocks
    /\ ~StopOnBanBlocks

\* "if (this.shouldSkipAccount(account.email, currentDayKey)) continue"
LoopSkip ==
    /\ LoopEnters
    /\ ShouldSkipAccount(accounts[idx], day)
    /\ skipped' = skipped \cup {accounts[idx]}
    /\ idx' = idx + 1
    /\ UNCHANGED <<cfgVars, sideVars, clusterVars, day, jobState, accountSummaries, bannedTriggered,
                   globalStandby, compromisedModeActive, pc, runs, pass,
                   accountDayKey, banned, dState, mState,
                   completeAtStart, resetDone, invoked, rerun, concluded>>

\* End of one loop iteration: the summary is pushed, the completion is
\* persisted under accountDayKey, a ban arms bannedTriggered and the standby.
FinishAccount(b) ==
    LET email == accounts[idx]
        summary == [email |-> email, banned |-> b]
    IN  /\ accountSummaries' = Append(accountSummaries, summary)
        /\ jobState' = PersistAccountCompletion(jobState, email, accountDayKey)
        /\ IF b
           THEN /\ bannedTriggered' = email
                /\ globalStandby' = [active |-> TRUE, reason |-> "banned"]
           ELSE UNCHANGED <<bannedTriggered, globalStandby>>
        /\ idx' = idx + 1
        /\ pc' = "loop"
        /\ banned' = FALSE
        /\ dState' = "none"
        /\ mState' = "none"

\* dryRun: an all-zero summary is pushed and persisted, no flow is called.
LoopDryRun ==
    /\ LoopEnters
    /\ ~ShouldSkipAccount(accounts[idx], day)
    /\ config.dryRun
    /\ compromisedModeActive' = FALSE
    /\ FinishAccount(FALSE)
    /\ UNCHANGED <<cfgVars, sideVars, clusterVars, day, runs, pass, accountDayKey, obsVars>>

\* The account is run: compromised state reset, then Desktop() alone
\* (sequential) or Desktop() and Mobile() together (parallel) are called.
StartAccount ==
    /\ LoopEnters
    /\ ~ShouldSkipAccount(accounts[idx], day)
    /\ ~config.dryRun
    /\ compromisedModeActive' = FALSE
    /\ banned' = FALSE
    /\ dState' = "running"
    /\ mState' = IF config.parallel THEN "running" ELSE "none"
    /\ pc' = IF config.parallel THEN "parallel" ELSE "desktop"
    /\ invoked' = invoked \cup {accounts[idx]}
    /\ rerun' = IF <<accounts[idx], day>> \in completeAtStart
                THEN rerun \cup {accounts[idx]} ELSE rerun
    /\ UNCHANGED <<cfgVars, sideVars, clusterVars, day, jobState, accountSummaries, bannedTriggered,
                   globalStandby, runs, pass, idx, accountDayKey,
                   completeAtStart, resetDone, skipped, concluded>>

\* ---------------------------------------------------- the task flows
\* Desktop() and Mobile() are the browser-driven flows; each returns its
\* points or throws.  detectBanReason classifies a thrown error as a ban.
FlowOutcomes == {"ok", "ban", "error"}

IsBan(outcome) == outcome = "ban"

\* A flow that runs on this bot object: Desktop() always does; Mobile() does
\* in sequential mode, in parallel mode it runs on a second bot instance.
FlowOnThisBot ==
    \/ pc = "desktop"
    \/ pc = "mobile"
    \/ pc = "parallel" /\ dState = "running"

\* A running flow meets a security challenge and sets
\* bot.compromisedModeActive = true.
FlowCompromised ==
    /\ FlowOnThisBot
    /\ ~compromisedModeActive
    /\ compromisedModeActive' = TRUE
    /\ UNCHANGED <<cfgVars, sideVars, clusterVars, day, jobState, accountSummaries, bannedTriggered,
                   globalStandby, pc, runs, pass, idx, accountDayKey, banned,
                   dState, mState, obsVars>>

\* engageGlobalStandby(reason, email), called by a running flow; a call
\* while the standby is already active returns at once.
EngageGlobalStandby ==
    /\ FlowOnThisBot
    /\ globalStandby' = IF globalStandby.active THEN globalStandby
                        ELSE [active |-> TRUE, reason |-> "security"]
    /\ globalStandby' # globalStandby
    /\ UNCHANGED <<cfgVars, sideVars, clusterVars, day, jobState, accountSummaries, bannedTriggered,
                   compromisedModeActive, pc, runs, pass, idx, accountDayKey,
                   banned, dState, mState, obsVars>>

MobileAllowed_IgnoreCompromised(b) == ~b

\* Sequential branch: "if (!banned.status && !this.compromisedModeActive)"
MobileAllowed(b) == ~b /\ ~compromisedModeActive

\* Sequential mode: Desktop() settles; then Mobile() is called, or skipped
\* and the iteration ends.
DesktopReturn ==
    /\ pc = "desktop"
    /\ \E outcome \in FlowOutcomes :
          LET b == IsBan(outcome)
          IN  IF MobileAllowed(b)
              THEN /\ pc' = "mobile"
                   /\ dState' = "done"
                   /\ mState' = "running"
                   /\ banned' = b
                   /\ invoked' = invoked \cup {accounts[idx]}
                   /\ rerun' = IF <<accounts[idx], day>> \in completeAtStart
                               THEN rerun \cup {accounts[idx]} ELSE rerun
                   /\ UNCHANGED <<jobState, accountSummaries, bannedTriggered,
                                  globalStandby, idx>>
              ELSE /\ FinishAccount(b)
                   /\ UNCHANGED <<invoked, rerun>>
    /\ UNCHANGED <<cfgVars, sideVars, clusterVars, day, compromisedModeActive, runs, pass,
                   accountDayKey, completeAtStart, resetDone, skipped, concluded>>

\* Sequential mode: Mobile() settles and the iteration ends.
MobileReturn ==
    /\ pc = "mobile"
    /\ \E outcome \in FlowOutcomes :
          FinishAccount(banned \/ IsBan(outcome))
    /\ UNCHANGED <<cfgVars, sideVars, clusterVars, day, compromisedModeActive, runs, pass,
                   accountDayKey, obsVars>>

\* Parallel mode: one of the two promises settles; Promise.allSettled
\* continues once both have, and the iteration ends.
ParallelReturn(flow, outcome) ==
    LET b == banned \/ IsBan(outcome)
        other == IF flow = "desktop" THEN mState ELSE dState
    IN  /\ pc = "parallel"
        /\ IF flow = "desktop" THEN dState = "running" ELSE mState = "running"
        /\ IF other = "done"
           THEN FinishAccount(b)
           ELSE /\ banned' = b
                /\ dState' = IF flow = "desktop" THEN "done" ELSE dState
                /\ mState' = IF flow = "mobile" THEN "done" ELSE mState
                /\ UNCHANGED <<jobState, accountSummaries, bannedTriggered,
                               globalStandby, idx, pc>>
        /\ UNCHANGED <<cfgVars, sideVars, clusterVars, day, compromisedModeActive, runs, pass,
                       accountDayKey, obsVars>>

ParallelDesktopReturn == \E outcome \in FlowOutcomes : ParallelReturn("desktop", outcome)

ParallelMobileReturn == \E outcome \in FlowOutcomes : ParallelReturn("mobile", outcome)

\* After the loop: the conclusion is sent (single-process mode), the standby
\* alert follows if a standby or a compromised state is active, and
\* runTasks returns.
AfterLoop ==
    /\ pc = "after_loop"
    /\ pc' = "returned"
    /\ idx' = 0
    /\ concluded' = Append(concluded, Len(accountSummaries))
    /\ UNCHANGED <<cfgVars, sideVars, clusterVars, day, jobState, accountSummaries, bannedTriggered,
                   globalStandby, compromisedModeActive, runs, pass,
                   accountDayKey, banned, dState, mState,
                   completeAtStart, resetDone, invoked, rerun, skipped>>

Next ==
    \/ DayTick
    \/ StartRun
    \/ NextPass
    \/ RunComplete
    \/ LoopExit
    \/ LoopSkip
    \/ LoopDryRun
    \/ StartAccount
    \/ FlowCompromised
    \/ EngageGlobalStandby
    \/ DesktopReturn
    \/ MobileReturn
    \/ ParallelDesktopReturn
    \/ ParallelMobileReturn
    \/ AfterLoop

Spec == Init /\ [][Next]_vars

\* ===================================================== runTasks properties
DefaultSettings ==
    /\ config.passesPerRun = 1
    /\ ~envSkipOverride
    /\ config.skipCompletedAccounts
    /\ config.jobStateEnabled

SkipDisabledByPolicy == config.passesPerRun > 1 \/ envSkipOverride

\* C1 as stated: with default settings no flow is started for an account that
\* had a completion record for that day when the run began; with
\* passesPerRun > 1 or the skip override set, every such account has been
\* run by the time runTasks returns.
C1_SkipAsStated ==
    /\ DefaultSettings => rerun = {}
    /\ (SkipDisabledByPolicy /\ pc = "returned") =>
          \A i \in 1..Len(accounts) :
              <<accounts[i], accountDayKey>> \in completeAtStart
                  => accounts[i] \in invoked

\* C1 amended: with default settings a flow is started for an account that
\* had a completion record for that day at the start of the run only after
\* resetAllJobStates ran in that run; with passesPerRun > 1 or the skip
\* override set, the skip check passes over no account.
C1_SkipUnlessReset ==
    /\ DefaultSettings => (rerun # {} => resetDone)
    /\ SkipDisabledByPolicy => skipped = {}

\* A default run that skipped a completed account and ran another one.
C1_Witness ==
    /\ DefaultSettings
    /\ ~resetDone
    /\ pc = "returned"
    /\ skipped # {}
    /\ \E a \in skipped : <<a, accountDayKey>> \in completeAtStart
    /\ invoked # {}

FlowStartStep == pc = "loop" /\ pc' \in {"desktop", "parallel"}

\* C2: an active global standby stays active, and while it is active no step
\* of runTasks starts the flows of a further account.
C2_StandbyIsTerminal ==
    [][globalStandby.active => (globalStandby'.active /\ ~FlowStartStep)]_vars

\* The loop was left by the standby guard with accounts still to process,
\* in a run after the one that entered the standby.
C2_Witness ==
    /\ globalStandby.active
    /\ pc = "after_loop"
    /\ idx <= Len(accounts)
    /\ runs > 1

\* C3 as stated: with stopOnBan off, a detected ban enters no global standby.
C3_BanEntersNoStandby ==
    ~config.stopOnBan => ~(globalStandby.active /\ globalStandby.reason = "banned")

\* C4: in sequential mode Mobile() is called only in the step in which
\* Desktop() settles, and only if Desktop() raised neither a ban nor the
\* compromised condition.
C4_MobileAfterCleanDesktop ==
    [][(~config.parallel /\ mState # "running" /\ mState' = "running") =>
          /\ pc = "desktop"
          /\ dState = "running"
          /\ dState' = "done"
          /\ ~banned'
          /\ ~compromisedModeActive]_vars

\* Sequential mode, Desktop() has settled cleanly and Mobile() is running.
C4_Witness ==
    /\ ~config.parallel
    /\ pc = "mobile"
    /\ dState = "done"
    /\ mState = "running"

\* C15 as stated: with passesPerRun = 2 (job state enabled, skip override
\* unset), once pass 1 has run an account that had a completion record for
\* the day, that record is gone or carries this run's id.
C15_RecordRefreshedByPass1 ==
    (/\ config.passesPerRun = 2
     /\ config.jobStateEnabled
     /\ config.skipCompletedAccounts
     /\ ~envSkipOverride
     /\ pass = 1
     /\ pc = "returned") =>
        \A a \in invoked :
            <<a, accountDayKey>> \in completeAtStart =>
                [email |-> a, day |-> accountDayKey, runId |-> OtherRunId] \notin jobState

\* The loop head is reached with an account still to process while the
\* compromised state of the account before it is set, and neither a
\* standby nor a ban is recorded.
CompromisedAtLoopHead ==
    /\ pc = "loop"
    /\ idx <= Len(accounts)
    /\ compromisedModeActive
    /\ ~globalStandby.active
    /\ bannedTriggered = 0

C33_PersistedUnderSkipKey ==
    [][\A r \in jobState' \ jobState : r.day = day]_vars

\* The sendConclusion calls that were handed the i-th summary of
\* accountSummaries: a call is handed the whole list, so the ones whose list
\* was at least i long.
ConclusionsWith(i) == {k \in 1..Len(concluded) : i <= concluded[k]}

\* C34 as stated: no summary is handed to sendConclusion more than once.
C34_SummaryReportedOnce ==
    \A i \in 1..Len(accountSummaries) : Cardinality(ConclusionsWith(i)) <= 1

\* C35 as stated: with dryRun set no step starts a flow and no step writes
\* a completion record, the change of the job state that makes a later run
\* skip an account.
C35_DryRunLeavesJobState ==
    [][config.dryRun => (invoked' \subseteq invoked /\ jobState' \subseteq jobState)]_vars

\* ============================================================ cluster mode
botVars == <<bannedTriggered, globalStandby, compromisedModeActive, pc, runs,
             pass, idx, accountDayKey, banned, dState, mState, obsVars>>

\* Util.chunkArray(arr, numChunks): numChunks contiguous chunks that cover
\* the list in order, their sizes differing by at most one.
ChunkArray(arr, numChunks) ==
    LET base == Len(arr) \div numChunks
        extra == Len(arr) % numChunks
        first(i) == (i - 1) * base + Min(i - 1, extra) + 1
        size(i) == base + (IF i <= extra THEN 1 ELSE 0)
    IN  [i \in 1..numChunks |-> SubSeq(arr, first(i), first(i) + size(i) - 1)]

WorkerCount_AllClusters == config.clusters

\* "const workerCount = Math.min(this.config.clusters, totalAccounts)"
WorkerCount == Min(config.clusters, Len(accounts))

BufferChunkRegistered_Missing == FALSE

\* main(): a worker registers bufferChunk before anything else runs.
BufferChunkRegistered == TRUE

\* cluster.fork() followed by worker.send({ chunk }) when msg is <<chunk>>.
Forked(slot, msg) ==
    [NoWorker EXCEPT !.status = "init",
                     !.bufferListening = BufferChunkRegistered,
                     !.inbox = msg,
                     !.sent = msg,
                     !.slot = slot]

Alive(w) == w.status \in {"init", "waiting", "running", "finishing"}

\* A worker process that has exited: its memory is gone; what remains is
\* the Worker object in the primary and a summary message still on the way.
Exited(w, code) ==
    [NoWorker EXCEPT !.status = "exited",
                     !.exitCode = code,
                     !.outbox = w.outbox,
                     !.restartAttempts = w.restartAttempts,
                     !.slot = w.slot,
                     !.sent = w.sent]

\* One-time execution: once runMaster's promise has resolved, run() returns,
\* bootstrap calls gracefulExit(0) and the primary exits; its workers lose
\* the IPC channel and exit with it.
PrimaryRunning == masterStarted /\ ~resolved

\* runMaster's promise executor: no accounts, or fork workerCount workers,
\* map and send each its chunk.
RunMaster ==
    /\ ~masterStarted
    /\ masterStarted' = TRUE
    /\ IF Len(accounts) = 0
       THEN /\ resolved' = TRUE
            /\ UNCHANGED <<activeWorkers, workerChunkMap, nextWorkerId, worker,
                           initialForks>>
       ELSE LET workerCount == WorkerCount
                accountChunks == ChunkArray(accounts, workerCount)
                chunkOf(i) == IF i \in DOMAIN accountChunks THEN accountChunks[i] ELSE <<>>
            IN  /\ activeWorkers' = workerCount
                /\ worker' = [id \in WorkerIds |->
                                 IF id <= workerCount
                                 THEN Forked(id, <<chunkOf(id)>>)
                                 ELSE worker[id]]
                /\ workerChunkMap' = [id \in WorkerIds |->
                                         IF id <= workerCount
                                         THEN <<chunkOf(id)>>
                                         ELSE workerChunkMap[id]]
                /\ nextWorkerId' = workerCount + 1
                /\ initialForks' = workerCount
                /\ UNCHANGED resolved
    /\ UNCHANGED <<cfgVars, sideVars, day, jobState, accountSummaries, botVars, crashes,
                   finalSummaries, aliveAtFinish>>

\* runWorker's promise resolves with chunk c: an empty chunk makes runWorker
\* return at once, otherwise runTasks(chunk) starts.
Resolved(w, c) ==
    [w EXCEPT !.chunk = <<c>>,
              !.obtained = @ + 1,
              !.pos = 0,
              !.status = IF Len(c) = 0 THEN "finishing" ELSE "running"]

\* The worker's runTasks(chunk, 1, 1), entry: the all-completed check and
\* the reset prompt, as in BeginRunTasks.  It runs in the continuation of
\* runWorker's promise, so it is part of the step that resolves the promise;
\* w is the worker as Resolved left it.
WorkerBeginRunTasks(id, w) ==
    LET c == w.chunk[1]
        allCompleted == \A i \in 1..Len(c) : ShouldSkipAccount(c[i], day)
    IN  IF w.status # "running"
        THEN /\ UNCHANGED jobState
             /\ worker' = [worker EXCEPT ![id] = w]
        ELSE IF allCompleted /\ Len(c) > 0
        THEN \E shouldReset \in PromptAnswers :
                IF shouldReset
                THEN /\ \E locked \in SUBSET DayFiles(jobState) :
                           jobState' = ResetAllJobStates(jobState, locked)
                     /\ worker' = [worker EXCEPT ![id] = [w EXCEPT !.pos = 1]]
                ELSE /\ UNCHANGED jobState
                     /\ worker' = [worker EXCEPT ![id] = [w EXCEPT !.status = "finishing"]]
        ELSE /\ UNCHANGED jobState
             /\ worker' = [worker EXCEPT ![id] = [w EXCEPT !.pos = 1]]

\* The worker's event loop delivers the chunk message to every listener
\* registered at that moment: bufferChunk and / or runWorker's handleMessage.
WorkerDeliverChunk(id) ==
    LET w == worker[id]
        c == w.inbox[1]
        buffered == [w EXCEPT !.inbox = <<>>,
                              !.globalChunk = IF w.bufferListening THEN <<c>> ELSE @,
                              !.bufferListening = FALSE]
    IN  /\ PrimaryRunning
        /\ Alive(w)
        /\ w.inbox # <<>>
        /\ IF w.status = "waiting"
           THEN WorkerBeginRunTasks(id, Resolved(buffered, c))
           ELSE /\ worker' = [worker EXCEPT ![id] = buffered]
                /\ UNCHANGED jobState
        /\ UNCHANGED <<cfgVars, sideVars, day, accountSummaries, botVars,
                       masterStarted, activeWorkers, workerChunkMap, resolved,
                       nextWorkerId, crashes, initialForks, finalSummaries,
                       aliveAtFinish>>

\* runWorker(): take the buffered chunk, or start listening for it.
WorkerRunWorker(id) ==
    LET w == worker[id]
    IN  /\ PrimaryRunning
        /\ w.status = "init"
        /\ IF w.globalChunk # <<>>
           THEN WorkerBeginRunTasks(id, Resolved([w EXCEPT !.globalChunk = <<>>],
                                                 w.globalChunk[1]))
           ELSE /\ worker' = [worker EXCEPT ![id].status = "waiting"]
                /\ UNCHANGED jobState
        /\ UNCHANGED <<cfgVars, sideVars, day, accountSummaries, botVars,
                       masterStarted, activeWorkers, workerChunkMap, resolved,
                       nextWorkerId, crashes, initialForks, finalSummaries,
                       aliveAtFinish>>

\* One iteration of the worker's account loop: the account is skipped, or
\* its flows run (here without a ban), its summary is pushed and its
\* completion persisted.
WorkerAccount(id) ==
    LET w == worker[id]
        email == w.chunk[1][w.pos]
    IN  /\ PrimaryRunning
        /\ w.status = "running"
        /\ w.pos \in 1..Len(w.chunk[1])
        /\ IF ShouldSkipAccount(email, day)
           THEN /\ worker' = [worker EXCEPT ![id].pos = @ + 1]
                /\ UNCHANGED jobState
           ELSE /\ worker' = [worker EXCEPT
                                 ![id].pos = @ + 1,
                                 ![id].summaries =
                                     Append(@, [email |-> email, banned |-> FALSE])]
                /\ jobState' = PersistAccountCompletion(jobState, email, day)
        /\ UNCHANGED <<cfgVars, sideVars, day, accountSummaries, botVars, masterStarted,
                       activeWorkers, workerChunkMap, resolved, nextWorkerId,
                       crashes, initialForks, finalSummaries, aliveAtFinish>>

\* After the loop a worker sends process.send({ type: 'summary', data }).
WorkerSendSummaries(id) ==
    LET w == worker[id]
    IN  /\ PrimaryRunning
        /\ w.status = "running"
        /\ w.pos > Len(w.chunk[1])
        /\ worker' = [worker EXCEPT ![id].outbox = <<w.summaries>>,
                                    ![id].status = "finishing"]
        /\ UNCHANGED <<cfgVars, sideVars, day, jobState, accountSummaries, botVars,
                       masterStarted, activeWorkers, workerChunkMap, resolved,
                       nextWorkerId, crashes, initialForks, finalSummaries,
                       aliveAtFinish>>

\* run() returned in the worker: bootstrap calls gracefulExit(0).
WorkerExit(id) ==
    /\ PrimaryRunning
    /\ worker[id].status = "finishing"
    /\ worker' = [worker EXCEPT ![id] = Exited(worker[id], 0)]
    /\ UNCHANGED <<cfgVars, sideVars, day, jobState, accountSummaries, botVars,
                   masterStarted, activeWorkers, workerChunkMap, resolved,
                   nextWorkerId, crashes, initialForks, finalSummaries,
                   aliveAtFinish>>

\* A worker process dies with a non-zero exit code at any point of its life.
WorkerCrash(id) ==
    /\ PrimaryRunning
    /\ Alive(worker[id])
    /\ crashes < MaxCrashes
    /\ crashes' = crashes + 1
    /\ worker' = [worker EXCEPT ![id] = Exited(worker[id], 1)]
    /\ UNCHANGED <<cfgVars, sideVars, day, jobState, accountSummaries, botVars,
                   masterStarted, activeWorkers, workerChunkMap, resolved,
                   nextWorkerId, initialForks, finalSummaries, aliveAtFinish>>

\* worker.on('message'): a summary message reaches the primary.
PrimaryOnMessage(id) ==
    /\ PrimaryRunning
    /\ worker[id].outbox # <<>>
    /\ accountSummaries' = accountSummaries \o worker[id].outbox[1]
    /\ worker' = [worker EXCEPT ![id].outbox = <<>>]
    /\ UNCHANGED <<cfgVars, sideVars, day, jobState, botVars, masterStarted,
                   activeWorkers, workerChunkMap, resolved, nextWorkerId,
                   crashes, initialForks, finalSummaries, aliveAtFinish>>

RespawnMap_NoSet(map, oldId, newId, originalChunk) ==
    [map EXCEPT ![oldId] = <<>>]

\* "workerChunkMap.set(newW.id, originalChunk); workerChunkMap.delete(worker.id)"
RespawnMap(map, oldId, newId, originalChunk) ==
    [map EXCEPT ![newId] = <<originalChunk>>, ![oldId] = <<>>]

\* cluster.on('exit'): count the worker out, respawn it if crash recovery
\* allows, and finish the run when activeWorkers has reached 0.  The exit
\* event is handled after the messages the worker sent.
PrimaryOnExit(id) ==
    LET w == worker[id]
        attempts == w.restartAttempts
        respawn == /\ config.restartFailedWorker
                   /\ w.exitCode # 0
                   /\ attempts < config.restartFailedWorkerAttempts
        newId == nextWorkerId
        original == workerChunkMap[id]
        reassign == original # <<>> /\ Len(original[1]) > 0
        seen == [w EXCEPT !.exitSeen = TRUE,
                          !.restartAttempts = IF respawn THEN attempts + 1 ELSE @]
        after == IF respawn
                 THEN [worker EXCEPT
                          ![id] = seen,
                          ![newId] = Forked(w.slot, IF reassign THEN original ELSE <<>>)]
                 ELSE [worker EXCEPT ![id] = seen]
    IN  /\ PrimaryRunning
        /\ w.status = "exited"
        /\ ~w.exitSeen
        /\ w.outbox = <<>>
        /\ activeWorkers' = activeWorkers - 1
        /\ worker' = after
        /\ nextWorkerId' = IF respawn THEN newId + 1 ELSE nextWorkerId
        /\ workerChunkMap' = IF respawn /\ reassign
                             THEN RespawnMap(workerChunkMap, id, newId, original[1])
                             ELSE workerChunkMap
        /\ IF activeWorkers' = 0 /\ ~resolved
           THEN /\ resolved' = TRUE
                /\ finalSummaries' = <<accountSummaries>>
                /\ aliveAtFinish' = {i \in WorkerIds : Alive(after[i])}
           ELSE UNCHANGED <<resolved, finalSummaries, aliveAtFinish>>
        /\ UNCHANGED <<cfgVars, sideVars, day, jobState, accountSummaries, botVars,
                       masterStarted, crashes, initialForks>>

ClusterConfigs ==
    [passesPerRun : {1},
     skipCompletedAccounts : {TRUE},
     jobStateEnabled : {TRUE},
     stopOnBan : {FALSE},
     parallel : {FALSE},
     dryRun : {FALSE},
     clusters : 2..MaxClusters,
     restartFailedWorker : BOOLEAN,
     restartFailedWorkerAttempts : {DefaultRestartFailedWorkerAttempts}]

\* A primary started with clusters > 1 and default task settings, on a day
\* for which no account has been completed yet.
InitClusterRun ==
    /\ config \in ClusterConfigs
    /\ envSkipOverride = FALSE
    /\ \E n \in 0..MaxAccounts : accounts = [i \in 1..n |-> i]
    /\ jobState = {}
    /\ day = 0
    /\ InitBot
    /\ InitCluster
    /\ InitSide

NextCluster ==
    \/ RunMaster
    \/ \E id \in WorkerIds : WorkerDeliverChunk(id)
    \/ \E id \in WorkerIds : WorkerRunWorker(id)
    \/ \E id \in WorkerIds : WorkerAccount(id)
    \/ \E id \in WorkerIds : WorkerSendSummaries(id)
    \/ \E id \in WorkerIds : WorkerExit(id)
    \/ \E id \in WorkerIds : WorkerCrash(id)
    \/ \E id \in WorkerIds : PrimaryOnMessage(id)
    \/ \E id \in WorkerIds : PrimaryOnExit(id)

SpecCluster == InitClusterRun /\ [][NextCluster]_vars

\* ====================================================== cluster properties
ForkedIds == {id \in WorkerIds : worker[id].status # "none"}

Emails(summaries) == [i \in 1..Len(summaries) |-> summaries[i].email]

Count(seq, x) == Cardinality({i \in 1..Len(seq) : seq[i] = x})

\* C6 as stated: with restartFailedWorker enabled, the list finishRun hands
\* to sendConclusion holds exactly one summary for each account of the run.
C6_OneSummaryPerAccount ==
    (config.restartFailedWorker /\ finalSummaries # <<>>) =>
        \A i \in 1..Len(accounts) : Count(Emails(finalSummaries[1]), accounts[i]) = 1

\* C7 as stated: when finishRun runs, every worker process ever forked,
\* replacements included, has exited.
C7_FinishAfterAllExited ==
    finalSummaries # <<>> => aliveAtFinish = {}

Respawns(slot) == Cardinality({id \in ForkedIds : worker[id].slot = slot}) - 1

\* C8 as stated: for one original chunk the primary forks at most
\* restartFailedWorkerAttempts replacement workers.
C8_RespawnsCapped ==
    \A slot \in 1..initialForks : Respawns(slot) <= config.restartFailedWorkerAttempts

\* C9: a chunk message is never lost.  A worker that waits in runWorker has
\* its chunk message still on the way (or was sent none); a worker past the
\* wait obtained exactly the chunk it was sent, exactly once.
C9_ChunkNeverLost ==
    \A id \in ForkedIds :
        LET w == worker[id]
        IN  /\ w.status = "waiting" => (w.inbox # <<>> \/ w.sent = <<>>)
            /\ w.status \in {"running", "finishing"} =>
                  (w.chunk = w.sent /\ w.obtained = 1)
            /\ w.obtained <= 1
            /\ (w.status = "running" /\ w.pos > 0) => w.chunk # <<>>

\* Two workers past the wait: one took the chunk buffered during startup,
\* the other received it while runWorker was already listening.
C9_Witness ==
    \E i \in ForkedIds, j \in ForkedIds :
        /\ worker[i].status = "running"
        /\ worker[i].pos > 0
        /\ worker[i].globalChunk = <<>>
        /\ worker[j].status = "running"
        /\ worker[j].pos > 0
        /\ worker[j].globalChunk # <<>>

Concat(ids) ==
    LET RECURSIVE cat(_)
        cat(k) == IF k = 0 THEN <<>> ELSE cat(k - 1) \o worker[k].sent[1]
    IN  cat(ids)

RecordsWritten == (jobState \ jobState') \cup (jobState' \ jobState)

\* The e-mails of the chunk a worker runs.
ChunkEmails(w) ==
    IF w.chunk = <<>> THEN {}
    ELSE {w.chunk[1][k] : k \in 1..Len(w.chunk[1])}

\* C23 as stated: the job-state records a worker writes or deletes are
\* records of the accounts of its own chunk.
C23_WorkerWritesOwnChunkOnly ==
    [][\A id \in WorkerIds :
          worker'[id] # worker[id] =>
              \A r \in RecordsWritten : r.email \in ChunkEmails(worker[id])]_vars

\* ================================================= main(): crash recovery
MaxRestartsSetting == 2
MaxFatalErrors == 3

\* A bot started once with the default settings and no account: the state
\* of the bot object while only the code around it is followed.
InitQuiet ==
    /\ config = [passesPerRun |-> 1, skipCompletedAccounts |-> TRUE,
                 jobStateEnabled |-> TRUE, stopOnBan |-> FALSE, parallel |-> FALSE,
                 dryRun |-> FALSE, clusters |-> 1, restartFailedWorker |-> FALSE,
                 restartFailedWorkerAttempts |-> DefaultRestartFailedWorkerAttempts]
    /\ envSkipOverride = FALSE
    /\ accounts = <<>>
    /\ jobState = {}
    /\ day = 0
    /\ InitBot
    /\ InitCluster

\* "config.crashRecovery.maxRestarts ?? 2"
MaxRestartsOf(p) ==
    IF p.maxRestarts = <<>> THEN DefaultMaxRestarts ELSE p.maxRestarts[1]

\* gracefulExit with "process.exit(0)" whatever the code.
GracefulExit_ExitZero(p, code) ==
    IF p.autoRestart /\ code # 0 /\ p.restarts < MaxRestartsOf(p)
    THEN [p EXCEPT !.timers = @ + 1]
    ELSE [p EXCEPT !.exited = TRUE, !.exitCode = 0]

\* gracefulExit(code): the process afterwards.  A restart is scheduled with
\* setTimeout; crashState.restarts is incremented when the timer fires.
GracefulExit(p, code) ==
    IF p.autoRestart /\ code # 0 /\ p.restarts < MaxRestartsOf(p)
    THEN [p EXCEPT !.timers = @ + 1]
    ELSE [p EXCEPT !.exited = TRUE, !.exitCode = code]

ProcAlive == proc.started /\ ~proc.exited

ProcUnchanged ==
    UNCHANGED <<cfgVars, clusterVars, day, jobState, accountSummaries, botVars,
                windowCall, iteration, serviceVars>>

\* main(): attachHandlers(), then "await bootstrap()".
MainBootstrap ==
    /\ ~proc.started
    /\ proc' = [proc EXCEPT !.started = TRUE, !.running = 1]
    /\ ProcUnchanged

\* sendConclusion(summaries) with processed accounts: the reporter builds
\* and delivers the summary, or throws.
ConclusionOutcomes == {"sent", "failed"}

\* "await rewardsBot.initialize()": startup validation passes, or throws.
InitializeOutcomes == {"ok", "throws"}

\* How rewardsBot.run() settles.  runMaster's finishRun wraps sendConclusion
\* in try / catch; runTasks awaits it bare, so in single-process mode its
\* exception rejects runTasks and with it run().
RunOutcome(clustered, conclusion) ==
    IF clustered THEN "resolved"
    ELSE IF conclusion = "failed" THEN "rejected"
    ELSE "resolved"

\* How "await rewardsBot.initialize(); await rewardsBot.run()" settles: an
\* exception of initialize() skips run().
InitializeAndRun(clustered, initialize, conclusion) ==
    IF initialize = "throws" THEN "rejected" ELSE RunOutcome(clustered, conclusion)

\* runTasks returns from its standby branch ("Process kept alive for manual
\* review"): in single-process mode, when the conclusion was sent and a
\* standby or a compromised state is active.
StandbyBranch(clustered, initialize, conclusion, securityActive) ==
    /\ ~clustered
    /\ InitializeAndRun(clustered, initialize, conclusion) = "resolved"
    /\ securityActive

\* bootstrap(): "await rewardsBot.run()" settles.  One-time execution ends
\* in gracefulExit(0), or in gracefulExit(1) from the catch block; scheduled
\* mode logs a failed initial run and keeps the process alive.
BootstrapRunSettles ==
    /\ ProcAlive
    /\ proc.running > 0
    /\ \E initialize \in InitializeOutcomes, conclusion \in ConclusionOutcomes,
          securityActive \in BOOLEAN :
          LET outcome == InitializeAndRun(proc.clustered, initialize, conclusion)
              p == [proc EXCEPT !.running = @ - 1,
                                !.conclusionFailed =
                                    @ \/ (initialize = "ok" /\ conclusion = "failed"),
                                !.lastRun = outcome,
                                !.lastStandby = StandbyBranch(proc.clustered, initialize,
                                                              conclusion, securityActive)]
          IN  proc' = IF proc.scheduling THEN p
                      ELSE IF outcome = "resolved" THEN GracefulExit(p, 0)
                      ELSE GracefulExit(p, 1)
    /\ ProcUnchanged

\* attachHandlers(): the 'unhandledRejection' and 'uncaughtException'
\* handlers end in gracefulExit(1).
FatalError ==
    /\ ProcAlive
    /\ proc.fatals < MaxFatalErrors
    /\ proc' = GracefulExit([proc EXCEPT !.fatals = @ + 1], 1)
    /\ ProcUnchanged

\* attachHandlers(): the SIGTERM and SIGINT handlers end in gracefulExit(0).
Signal ==
    /\ ProcAlive
    /\ proc' = GracefulExit(proc, 0)
    /\ ProcUnchanged

\* The setTimeout callback of gracefulExit: crashState.restarts++; bootstrap()
RestartTimerFires ==
    /\ ProcAlive
    /\ proc.timers > 0
    /\ proc' = [proc EXCEPT !.timers = @ - 1, !.restarts = @ + 1, !.running = @ + 1]
    /\ ProcUnchanged

InitMain ==
    /\ InitQuiet
    /\ \E autoRestart \in BOOLEAN, scheduling \in BOOLEAN, clustered \in BOOLEAN,
          maxRestarts \in {<<>>} \cup {<<n>> : n \in 0..MaxRestartsSetting} :
          proc = ProcAtStart(autoRestart, maxRestarts, scheduling, clustered)
    /\ windowCall = NoWindowCall
    /\ iteration = NoIteration
    /\ InitServices

NextMain ==
    \/ MainBootstrap
    \/ BootstrapRunSettles
    \/ FatalError
    \/ Signal
    \/ RestartTimerFires

SpecMain == InitMain /\ [][NextMain]_vars

\* ================================================ crash recovery properties
\* C11 as stated: with autoRestart enabled the number of restarts performed
\* by the process never exceeds maxRestarts (default 2).
C11_RestartsAtMostMax ==
    proc.autoRestart => proc.restarts <= MaxRestartsOf(proc)

\* C20 as stated: a process that met no fatal error exits with code 0, also
\* when a sendConclusion call of one of its runs failed.
C20_ConclusionFailureExitsZero ==
    (proc.exited /\ proc.fatals = 0 /\ proc.conclusionFailed) => proc.exitCode = 0

\* A step in which "await rewardsBot.run()" of a one-time execution settles.
RunSettlesAs(outcome) ==
    /\ ProcAlive
    /\ ~proc.scheduling
    /\ proc'.running < proc.running
    /\ proc'.lastRun = outcome

\* C27 as stated: when a run ends with the security standby active, the
\* process is kept alive: the return of that run does not end the process.
C27_StandbyRunKeepsProcessAlive ==
    [][(/\ ProcAlive
        /\ proc'.running < proc.running
        /\ proc'.lastStandby) => ~proc'.exited]_vars

\* A step in which a one-time execution meets a fatal error: an exception of
\* initialize() or run(), an uncaught exception or an unhandled rejection.
FatalErrorOccurs ==
    \/ RunSettlesAs("rejected")
    \/ ProcAlive /\ ~proc.scheduling /\ proc'.fatals > proc.fatals

\* Crash recovery is enabled and has restarts left.
RestartAvailable == proc.autoRestart /\ proc.restarts < MaxRestartsOf(proc)

\* C21 as stated: a one-time execution exits with code 0 when run()
\* completes, and with a non-zero code when a fatal error occurs.
C21_FatalErrorExitsNonZero ==
    [][/\ RunSettlesAs("resolved") => proc'.exited /\ proc'.exitCode = 0
       /\ FatalErrorOccurs => proc'.exited /\ proc'.exitCode # 0]_vars

\* C21 amended: a one-time execution exits with code 0 when run() completes;
\* on a fatal error it exits with a non-zero code unless crash recovery is
\* enabled with restarts left, and then it schedules a restart and goes on.
C21_FatalErrorExitsOrRestarts ==
    [][/\ RunSettlesAs("resolved") => proc'.exited /\ proc'.exitCode = 0
       /\ (FatalErrorOccurs /\ ~RestartAvailable) =>
              proc'.exited /\ proc'.exitCode # 0
       /\ (FatalErrorOccurs /\ RestartAvailable) =>
              ~proc'.exited /\ proc'.timers = proc.timers + 1]_vars

\* A one-time execution with crash recovery used up its restarts, met a
\* further fatal error and exited with a non-zero code.
C21_Witness ==
    /\ ~proc.scheduling
    /\ proc.autoRestart
    /\ MaxRestartsOf(proc) > 0
    /\ proc.restarts >= MaxRestartsOf(proc)
    /\ proc.exited
    /\ proc.exitCode # 0

\* ==================================== computeWaitForAllowedWindow(windows)
MaxWindows == 2

\* parseInt(v, 10) of a field that holds no number.  No parsed field is
\* negative: '-' separates the start from the end.
NaN == 0 - 1

\* One side of a window after split(':').map(parseInt): the sequence of
\* the parsed fields.  "02:00", "09:00", "17:30", "22:00", then an hour and
\* a minute out of range, a field that is no number and a side without a
\* colon.
WindowTimes ==
    {<<2, 0>>, <<9, 0>>, <<17, 30>>, <<22, 0>>,
     <<24, 0>>, <<9, 60>>, <<NaN, 0>>, <<9>>}

\* An entry of humanization.allowedWindows, "HH:mm-HH:mm", as its two sides.
WindowValues == [pStart : WindowTimes, pEnd : WindowTimes]

\* Lists of 1..n entries
WindowLists(n) == UNION {[1..k -> WindowValues] : k \in 1..n}

\* now.getHours() and now.getMinutes() of the clock readings considered
NowValues ==
    {<<0, 0>>, <<2, 0>>, <<2, 1>>, <<9, 0>>, <<12, 0>>, <<17, 31>>, <<22, 0>>, <<23, 59>>}

MsPerMin == 60 * 1000

\* The checks that make the loop "continue" to the next entry
WindowIsValid(w) ==
    /\ Len(w.pStart) = 2
    /\ Len(w.pEnd) = 2
    /\ \A n \in {w.pStart[1], w.pStart[2], w.pEnd[1], w.pEnd[2]} : n # NaN
    /\ ~(w.pStart[1] < 0 \/ w.pStart[1] > 23 \/ w.pEnd[1] < 0 \/ w.pEnd[1] > 23)
    /\ ~(w.pStart[2] < 0 \/ w.pStart[2] > 59 \/ w.pEnd[2] < 0 \/ w.pEnd[2] > 59)

\* "const s = sh * 60 + sm" and "const e = eh * 60 + em"
WindowStart(w) == w.pStart[1] * 60 + w.pStart[2]

WindowEnd(w) == w.pEnd[1] * 60 + w.pEnd[2]

NextStart_Last(nextStartMins, s) == s

\* "Math.min(nextStartMins ?? s, s)"; nextStartMins is <<>> when null
NextStart(nextStartMins, s) ==
    Min(IF nextStartMins = <<>> THEN s ELSE nextStartMins[1], s)

WrapInside_Both(minsNow, s, e) == minsNow >= s /\ minsNow <= e

\* The test of the branch for a window that wraps past midnight
WrapInside(minsNow, s, e) == minsNow >= s \/ minsNow <= e

\* The statements after the loop
WaitAfterLoop(nextStartMins, minsNow) ==
    IF nextStartMins # <<>>
    THEN LET targetTodayMs == (nextStartMins[1] - minsNow) * MsPerMin
         IN  IF targetTodayMs > 0 THEN targetTodayMs
             ELSE (24 * 60 + nextStartMins[1] - minsNow) * MsPerMin
    ELSE 0

RECURSIVE WindowLoop(_, _, _, _)
\* The for loop from entry i on, with the value nextStartMins has there
WindowLoop(windows, i, minsNow, nextStartMins) ==
    IF i > Len(windows) THEN WaitAfterLoop(nextStartMins, minsNow)
    ELSE LET w == windows[i]
             s == WindowStart(w)
             e == WindowEnd(w)
         IN  IF ~WindowIsValid(w)
             THEN WindowLoop(windows, i + 1, minsNow, nextStartMins)
             ELSE IF s <= e
             THEN IF minsNow >= s /\ minsNow <= e THEN 0
                  ELSE IF minsNow < s
                  THEN WindowLoop(windows, i + 1, minsNow, <<NextStart(nextStartMins, s)>>)
                  ELSE WindowLoop(windows, i + 1, minsNow, nextStartMins)
             ELSE IF WrapInside(minsNow, s, e) THEN 0
                  ELSE WindowLoop(windows, i + 1, minsNow, <<NextStart(nextStartMins, s)>>)

\* computeWaitForAllowedWindow(windows) at a clock reading of minsNow
ComputeWaitForAllowedWindow(windows, minsNow) == WindowLoop(windows, 1, minsNow, <<>>)

\* runTasks calls it for a non-empty allowedWindows list.
WindowWait ==
    /\ ~windowCall.returned
    /\ Len(windowCall.windows) > 0
    /\ windowCall' = [windowCall EXCEPT
            !.returned = TRUE,
            !.waitMs = ComputeWaitForAllowedWindow(windowCall.windows, windowCall.minsNow)]
    /\ UNCHANGED <<cfgVars, clusterVars, day, jobState, accountSummaries, botVars,
                   proc, iteration, serviceVars>>

InitWindow ==
    /\ InitQuiet
    /\ \E windows \in WindowLists(MaxWindows), now \in NowValues :
          windowCall = [windows |-> windows, minsNow |-> now[1] * 60 + now[2],
                        returned |-> FALSE, waitMs |-> 0]
    /\ proc = NoProc
    /\ iteration = NoIteration
    /\ InitServices

NextWindow == WindowWait

SpecWindow == InitWindow /\ [][NextWindow]_vars

\* ================================================ allowed-window properties
ValidWindows == {i \in 1..Len(windowCall.windows) : WindowIsValid(windowCall.windows[i])}

\* The clock reading lies within window w: between start and end, or, for
\* a window whose start is later than its end, at or after the start or at
\* or before the end.
InsideWindow(w, minsNow) ==
    IF WindowStart(w) <= WindowEnd(w)
    THEN minsNow >= WindowStart(w) /\ minsNow <= WindowEnd(w)
    ELSE minsNow >= WindowStart(w) \/ minsNow <= WindowEnd(w)

InsideSomeWindow ==
    \E i \in ValidWindows : InsideWindow(windowCall.windows[i], windowCall.minsNow)

\* Minutes from the clock reading to the next start of window w
MinutesToStart(w, minsNow) ==
    IF WindowStart(w) > minsNow THEN WindowStart(w) - minsNow
    ELSE 24 * 60 + WindowStart(w) - minsNow

\* C12 as stated: for a list with at least one valid window the call
\* returns 0 exactly when the clock reading lies within a valid window, and
\* a positive wait otherwise.
C12_ZeroIffInsideWindow ==
    (windowCall.returned /\ ValidWindows # {}) =>
        /\ windowCall.waitMs >= 0
        /\ (windowCall.waitMs = 0) <=> InsideSomeWindow

\* C13: a positive return value is the number of minutes to the nearest
\* next start over all valid windows, times 60000.
C13_WaitIsNearestStart ==
    (windowCall.returned /\ windowCall.waitMs > 0) =>
        /\ ValidWindows # {}
        /\ \E i \in ValidWindows :
              windowCall.waitMs =
                  MinutesToStart(windowCall.windows[i], windowCall.minsNow) * 60000
        /\ \A i \in ValidWindows :
              windowCall.waitMs <=
                  MinutesToStart(windowCall.windows[i], windowCall.minsNow) * 60000

\* A positive wait was returned for two valid windows whose starts differ,
\* the nearer one listed first.
C13_Witness ==
    /\ windowCall.returned
    /\ windowCall.waitMs > 0
    /\ Len(windowCall.windows) = 2
    /\ ValidWindows = {1, 2}
    /\ MinutesToStart(windowCall.windows[1], windowCall.minsNow)
          < MinutesToStart(windowCall.windows[2], windowCall.minsNow)

\* C14: when a valid window whose start is later than its end is listed and
\* the clock reading is at or after its start or at or before its end, the
\* call returns 0.
C14_MidnightWindowInside ==
    windowCall.returned =>
        \A i \in ValidWindows :
            LET w == windowCall.windows[i]
            IN  (/\ WindowStart(w) > WindowEnd(w)
                 /\ \/ windowCall.minsNow >= WindowStart(w)
                    \/ windowCall.minsNow <= WindowEnd(w))
                    => windowCall.waitMs = 0

\* The call returned for 22:00-02:00 at a clock reading after midnight.
C14_Witness ==
    /\ windowCall.returned
    /\ windowCall.waitMs = 0
    /\ windowCall.windows = <<[pStart |-> <<22, 0>>, pEnd |-> <<2, 0>>]>>
    /\ windowCall.minsNow <= 2 * 60

\* ===================================== one iteration of the runTasks loop
MaxPoints == 2

\* What a call of Desktop() or Mobile() ends with: the points object it
\* returns, or a thrown error that detectBanReason does or does not
\* classify as a ban.
FlowResults ==
    [kind : {"value"}, initialPoints : 0..MaxPoints, collectedPoints : 0..MaxPoints]
        \cup [kind : {"error", "ban"}, initialPoints : {0}, collectedPoints : {0}]

\* The JavaScript value Infinity.  Points are never negative.
Infinity == 0 - 1

\* "a || b" on numbers: 0 is falsy
OrElse(a, b) == IF a # 0 THEN a ELSE b

\* Math.min(a, b)
MathMin(a, b) ==
    IF a = Infinity THEN b
    ELSE IF b = Infinity THEN a
    ELSE Min(a, b)

\* a + b
Plus(a, b) == IF a = Infinity \/ b = Infinity THEN Infinity ELSE a + b

\* The locals of an iteration when the account's flows are about to start
IterationAtStart(parallel) ==
    [phase |-> "start",        \* start | desktop | mobile | parallel | done | rejected
     parallel |-> parallel,    \* this.config.parallel
     compromised |-> FALSE,    \* this.compromisedModeActive
     desktopPromise |-> <<>>,  \* <<p>> once Desktop().catch(...) has settled as p
     mobilePromise |-> <<>>,   \* <<p>> once Mobile().catch(...) has settled as p
     mobileCalled |-> FALSE,   \* Mobile() was called
     desktopInitial |-> 0,
     mobileInitial |-> 0,
     desktopCollected |-> 0,
     mobileCollected |-> 0,
     errors |-> <<>>,          \* the source of each entry of errors
     banned |-> FALSE,         \* banned.status
     summary |-> <<>>,         \* <<summary>> once pushed to accountSummaries
     \* observation
     desktopGave |-> <<>>,     \* <<r>> once Desktop() itself has ended with r
     mobileGave |-> <<>>,      \* <<r>> once Mobile() itself has ended with r
     order |-> <<>>]           \* the flows in the order in which they ended

\* "errors.push(formatFullError(flow, e, verbose))" in a catch handler
ErrorsAfterCatch(errors, flow) == Append(errors, flow)

\* The catch handler attached to a flow: ban detection, then the error entry
CatchHandler(it, flow, result) ==
    [it EXCEPT !.banned = @ \/ IsBan(result.kind),
               !.errors = ErrorsAfterCatch(@, flow)]

AfterCatch_Rethrow(result) ==
    IF result.kind = "value"
    THEN [status |-> "fulfilled", value |-> <<result>>]
    ELSE [status |-> "rejected", value |-> <<>>]

\* The promise flow(account).catch(handler): fulfilled with the points
\* object, or with null after the handler ran ("return null").
AfterCatch(result) ==
    IF result.kind = "value"
    THEN [status |-> "fulfilled", value |-> <<result>>]
    ELSE [status |-> "fulfilled", value |-> <<>>]

\* A flow has ended with result: the handler runs if it threw.
FlowEnded(it, flow, result) ==
    LET caught == IF result.kind = "value" THEN it ELSE CatchHandler(it, flow, result)
    IN  IF flow = "desktop"
        THEN [caught EXCEPT !.desktopGave = <<result>>, !.order = Append(@, flow)]
        ELSE [caught EXCEPT !.mobileGave = <<result>>, !.order = Append(@, flow)]

\* initialTotal, from the two initial readings
InitialTotal(parallel, desktopInitial, mobileInitial) ==
    IF parallel
    THEN MathMin(OrElse(desktopInitial, Infinity), OrElse(mobileInitial, Infinity))
    ELSE OrElse(desktopInitial, OrElse(mobileInitial, 0))

CollectedOf_Dropped(value) == 0

\* "desktopCollected = desktopResult.value.collectedPoints"
CollectedOf(value) == value.collectedPoints

\* The summary object built at the end of the iteration and pushed
PushSummary(it) ==
    LET totalCollected == it.desktopCollected + it.mobileCollected
        initialTotal == InitialTotal(it.parallel, it.desktopInitial, it.mobileInitial)
    IN  [it EXCEPT !.phase = "done",
                   !.summary = <<[desktopCollected |-> it.desktopCollected,
                                  mobileCollected |-> it.mobileCollected,
                                  totalCollected |-> totalCollected,
                                  initialTotal |-> initialTotal,
                                  endTotal |-> Plus(initialTotal, totalCollected),
                                  errors |-> it.errors,
                                  banned |-> it.banned]>>]

\* "if (result) { xInitial = result.initialPoints; xCollected = ... }"
TakeResult(it, flow, value) ==
    IF value = <<>> THEN it
    ELSE IF flow = "desktop"
    THEN [it EXCEPT !.desktopInitial = value[1].initialPoints,
                    !.desktopCollected = CollectedOf(value[1])]
    ELSE [it EXCEPT !.mobileInitial = value[1].initialPoints,
                    !.mobileCollected = CollectedOf(value[1])]

\* Parallel branch, after Promise.allSettled: one settled promise is handled.
HandleSettled(it, flow, promise) ==
    IF promise.status = "fulfilled" THEN TakeResult(it, flow, promise.value)
    ELSE [it EXCEPT !.errors = Append(@, IF flow = "desktop" THEN "desktop-rejected"
                                         ELSE "mobile-rejected")]

IterationUnchanged ==
    UNCHANGED <<cfgVars, clusterVars, day, jobState, accountSummaries, botVars,
                proc, windowCall, serviceVars>>

\* The flows of the account are started: Desktop() alone in sequential
\* mode, Desktop() and Mobile() one after the other in parallel mode.
IterationStart ==
    /\ iteration.phase = "start"
    /\ iteration' = IF iteration.parallel
                    THEN [iteration EXCEPT !.phase = "parallel", !.mobileCalled = TRUE]
                    ELSE [iteration EXCEPT !.phase = "desktop"]
    /\ IterationUnchanged

\* A flow running on this bot sets compromisedModeActive.
IterationCompromised ==
    /\ \/ iteration.phase \in {"desktop", "mobile"}
       \/ iteration.phase = "parallel" /\ iteration.desktopGave = <<>>
    /\ ~iteration.compromised
    /\ iteration' = [iteration EXCEPT !.compromised = TRUE]
    /\ IterationUnchanged

\* Sequential mode: "await this.Desktop(account).catch(...)" settles; then
\* Mobile() is called, or skipped and the summary is pushed.
IterationDesktopReturn ==
    /\ iteration.phase = "desktop"
    /\ \E result \in FlowResults :
          LET ended == FlowEnded(iteration, "desktop", result)
              promise == AfterCatch(result)
              taken == TakeResult([ended EXCEPT !.desktopPromise = <<promise>>],
                                  "desktop", promise.value)
          IN  iteration' =
                  IF promise.status = "rejected" THEN [ended EXCEPT !.phase = "rejected"]
                  ELSE IF ~taken.banned /\ ~taken.compromised
                  THEN [taken EXCEPT !.phase = "mobile", !.mobileCalled = TRUE]
                  ELSE PushSummary(taken)
    /\ IterationUnchanged

\* Sequential mode: "await this.Mobile(account).catch(...)" settles.
IterationMobileReturn ==
    /\ iteration.phase = "mobile"
    /\ \E result \in FlowResults :
          LET ended == FlowEnded(iteration, "mobile", result)
              promise == AfterCatch(result)
              taken == TakeResult([ended EXCEPT !.mobilePromise = <<promise>>],
                                  "mobile", promise.value)
          IN  iteration' =
                  IF promise.status = "rejected" THEN [ended EXCEPT !.phase = "rejected"]
                  ELSE PushSummary(taken)
    /\ IterationUnchanged

\* Parallel mode: one of the two promises settles.  When both have,
\* Promise.allSettled resolves, both results are handled and the summary
\* is pushed.
IterationParallelSettles(flow) ==
    /\ iteration.phase = "parallel"
    /\ IF flow = "desktop" THEN iteration.desktopPromise = <<>>
                           ELSE iteration.mobilePromise = <<>>
    /\ \E result \in FlowResults :
          LET ended == FlowEnded(iteration, flow, result)
              promise == AfterCatch(result)
              settled == IF flow = "desktop"
                         THEN [ended EXCEPT !.desktopPromise = <<promise>>]
                         ELSE [ended EXCEPT !.mobilePromise = <<promise>>]
          IN  iteration' =
                  IF settled.desktopPromise # <<>> /\ settled.mobilePromise # <<>>
                  THEN PushSummary(
                           HandleSettled(
                               HandleSettled(settled, "desktop", settled.desktopPromise[1]),
                               "mobile", settled.mobilePromise[1]))
                  ELSE settled
    /\ IterationUnchanged

InitIteration ==
    /\ InitQuiet
    /\ \E parallel \in BOOLEAN : iteration = IterationAtStart(parallel)
    /\ proc = NoProc
    /\ windowCall = NoWindowCall
    /\ InitServices

NextIteration ==
    \/ IterationStart
    \/ IterationCompromised
    \/ IterationDesktopReturn
    \/ IterationMobileReturn
    \/ \E flow \in {"desktop", "mobile"} : IterationParallelSettles(flow)

SpecIteration == InitIteration /\ [][NextIteration]_vars

\* =================================================== iteration properties
Threw(gave) == gave # <<>> /\ gave[1].kind # "value"

Returned(gave) == gave # <<>> /\ gave[1].kind = "value"

\* C16 as stated: in parallel mode, when both flows returned their points,
\* the summary's initialTotal is the smaller of the two initial readings.
C16_ParallelInitialIsMinimum ==
    (/\ iteration.phase = "done"
     /\ iteration.parallel
     /\ Returned(iteration.desktopGave)
     /\ Returned(iteration.mobileGave)) =>
        iteration.summary[1].initialTotal =
            Min(iteration.desktopGave[1].initialPoints,
                iteration.mobileGave[1].initialPoints)

\* C17: in parallel mode Mobile() is called together with Desktop(); a flow
\* still running when the other one has thrown stays running; and in the
\* summary the points collected by every flow that returned are counted,
\* whatever the other flow ended with.
C17_ParallelFlowsIndependent ==
    iteration.phase \in {"parallel", "done"} /\ iteration.parallel =>
        /\ iteration.mobileCalled
        /\ iteration.phase = "parallel" =>
              iteration.desktopGave = <<>> \/ iteration.mobileGave = <<>>
        /\ iteration.phase = "done" =>
              LET d == IF Returned(iteration.desktopGave)
                       THEN iteration.desktopGave[1].collectedPoints ELSE 0
                  m == IF Returned(iteration.mobileGave)
                       THEN iteration.mobileGave[1].collectedPoints ELSE 0
              IN  /\ iteration.desktopGave # <<>>
                  /\ iteration.mobileGave # <<>>
                  /\ iteration.summary[1].desktopCollected = d
                  /\ iteration.summary[1].mobileCollected = m
                  /\ iteration.summary[1].totalCollected = d + m

\* Desktop() threw first, Mobile() then returned collected points, and the
\* summary counts them.
C17_Witness ==
    /\ iteration.phase = "done"
    /\ iteration.parallel
    /\ iteration.order = <<"desktop", "mobile">>
    /\ Threw(iteration.desktopGave)
    /\ Returned(iteration.mobileGave)
    /\ iteration.mobileGave[1].collectedPoints > 0
    /\ iteration.summary[1].totalCollected = iteration.mobileGave[1].collectedPoints

ThrownFlows ==
    {f \in {"desktop", "mobile"} :
        Threw(IF f = "desktop" THEN iteration.desktopGave ELSE iteration.mobileGave)}

\* C19: runTasks is never rejected by a flow's exception; each flow that
\* threw has left one entry in errors, and the summary pushed at the end of
\* the iteration carries these entries.
C19_FlowErrorsCaughtAndRecorded ==
    /\ iteration.phase # "rejected"
    /\ iteration.phase \in {"desktop", "mobile", "parallel", "done"} =>
          /\ Len(iteration.errors) = Cardinality(ThrownFlows)
          /\ \A f \in ThrownFlows : \E i \in 1..Len(iteration.errors) : iteration.errors[i] = f
    /\ iteration.phase = "done" =>
          /\ iteration.summary # <<>>
          /\ iteration.summary[1].errors = iteration.errors

\* Sequential mode: Desktop() returned, Mobile() threw, and the summary
\* holds the entry of the mobile flow.
C19_Witness ==
    /\ iteration.phase = "done"
    /\ ~iteration.parallel
    /\ Returned(iteration.desktopGave)
    /\ Threw(iteration.mobileGave)
    /\ iteration.summary[1].errors = <<"mobile">>

\* C36 as stated: in every summary initialTotal and endTotal are finite and
\* not negative, and endTotal is initialTotal plus the points the two flows
\* collected.
C36_TotalsFiniteAndAdditive ==
    iteration.phase = "done" =>
        LET summary == iteration.summary[1]
        IN  /\ summary.initialTotal # Infinity
            /\ summary.initialTotal >= 0
            /\ summary.endTotal # Infinity
            /\ summary.endTotal =
                  summary.initialTotal + summary.desktopCollected + summary.mobileCollected

\* ================================================= Logger.ts: log, webhook
MaxLogCalls == 3

\* DISCORD.MAX_EMBED_LENGTH (1900 characters), scaled down to 3.
MaxEmbedLength == 3

\* Lengths of the lines log() builds (cleanStr is never empty): two short
\* lines fit one embed together, a line of length 4 fits none.
LineLengths == {1, 2, 4}

LogTitles == {"MAIN", "SHUTDOWN", "LOGIN"}
LogTypes == {"log", "warn", "error"}

\* Values of logging.excludeFunc and logging.webhookExcludeFunc.
ExcludeLists == {<<>>, <<"main">>, <<"Shutdown">>, <<"LOGIN", "main">>}

\* String.prototype.toLowerCase on the titles in use.
ToLowerCase(x) ==
    IF x \in {"MAIN", "main"} THEN "main"
    ELSE IF x \in {"SHUTDOWN", "Shutdown", "shutdown"} THEN "shutdown"
    ELSE IF x \in {"LOGIN", "login"} THEN "login"
    ELSE x

\* list.some(x => x.toLowerCase() === title.toLowerCase())
Excludes(list, title) ==
    \E i \in 1..Len(list) : ToLowerCase(list[i]) = ToLowerCase(title)

\* The logger of a process: configuration, the result of the latest log()
\* call, the webhook buffer of the live URL and the POSTs delivered.
LoggerAtStart(excludeFunc, webhookExcludeFunc, liveUrl) ==
    [enabled |-> TRUE,
     excludeFunc |-> excludeFunc,               \* logging.excludeFunc
     webhookExcludeFunc |-> webhookExcludeFunc, \* logging.webhookExcludeFunc
     liveUrl |-> liveUrl,                       \* a live webhook URL is configured
     calls |-> 0,                               \* log() calls so far
     lastType |-> "none",                       \* type of the latest call
     lastReturn |-> "none",                     \* its return value: undefined | Error
     queued |-> 0,                              \* lines handed to enqueueWebhookLog
     lines |-> <<>>,                            \* buf.lines
     sending |-> FALSE,                         \* buf.sending
     timer |-> FALSE,                           \* buf.timer is set
     phase |-> "idle",                          \* sendBatch: idle | posting | delay
     chunk |-> <<>>,                            \* the chunk of the POST in flight
     posted |-> <<>>,                           \* POSTs that succeeded, in order
     requeuedAhead |-> FALSE]                   \* a failed chunk was put back ahead of newer lines

\* enqueueWebhookLog(url, line)
EnqueueWebhookLog(l, len) ==
    [l EXCEPT !.queued = @ + 1,
              !.lines = Append(@, [id |-> l.queued + 1, len |-> len]),
              !.timer = TRUE]

\* The value log() returns: undefined for a title in excludeFunc, whatever
\* the type; otherwise an Error for type 'error', undefined for the others.
LogReturns(l, title, type) ==
    IF Excludes(l.excludeFunc, title) THEN "undefined"
    ELSE IF type = "error" THEN "Error"
    ELSE "undefined"

\* log(isMobile, title, message, type): the logger afterwards.
Log(l, title, type, len) ==
    LET called == [l EXCEPT !.calls = @ + 1, !.lastType = type,
                            !.lastReturn = LogReturns(l, title, type)]
    IN  IF Excludes(l.excludeFunc, title) THEN called
        ELSE IF l.liveUrl /\ ~Excludes(l.webhookExcludeFunc, title)
        THEN EnqueueWebhookLog(called, len)
        ELSE called

\* sendBatch, inner while loop: lines are moved to the chunk while the
\* joined length (one separator between lines) stays within the limit; the
\* first line is always taken.
RECURSIVE FillChunk(_, _, _)
FillChunk(lines, chunk, currentLength) ==
    IF Len(lines) = 0
    THEN [chunk |-> chunk, lines |-> lines, length |-> currentLength]
    ELSE LET next == Head(lines)
             projected == currentLength + next.len + (IF Len(chunk) > 0 THEN 1 ELSE 0)
         IN  IF projected > MaxEmbedLength /\ Len(chunk) > 0
             THEN [chunk |-> chunk, lines |-> lines, length |-> currentLength]
             ELSE FillChunk(Tail(lines), Append(chunk, next), projected)

\* chunk.join('\n').slice(0, DISCORD.MAX_EMBED_LENGTH), as a length
ContentLength(length) == Min(length, MaxEmbedLength)

\* sendBatch, head of the outer while loop: the next chunk is taken and
\* its POST started, an empty content is passed over, and with no line left
\* buf.sending is cleared.
RECURSIVE SendLoop(_)
SendLoop(l) ==
    IF Len(l.lines) = 0
    THEN [l EXCEPT !.sending = FALSE, !.phase = "idle", !.chunk = <<>>]
    ELSE LET f == FillChunk(l.lines, <<>>, 0)
         IN  IF ContentLength(f.length) = 0
             THEN SendLoop([l EXCEPT !.lines = f.lines])
             ELSE [l EXCEPT !.lines = f.lines, !.chunk = f.chunk, !.phase = "posting"]

\* sendBatch(url, buf) up to its first await.
SendBatch(l) ==
    IF l.sending THEN l
    ELSE SendLoop([l EXCEPT !.sending = TRUE])

\* The catch block of sendBatch re-queues the failed chunk behind the
\* lines logged meanwhile.
RequeueFailed_AtBack(chunk, lines) == lines \o chunk

\* The catch block of sendBatch: "buf.lines = chunk.concat(buf.lines)"
RequeueFailed(chunk, lines) == chunk \o lines

LoggerUnchanged ==
    UNCHANGED <<cfgVars, clusterVars, day, jobState, accountSummaries, botVars,
                windowCall, iteration, reportError, validator, notify>>

\* Some code of the process calls log().
LoggerLog ==
    /\ ProcAlive
    /\ logger.calls < MaxLogCalls
    /\ \E title \in LogTitles, type \in LogTypes, len \in LineLengths :
          logger' = Log(logger, title, type, len)
    /\ UNCHANGED proc
    /\ LoggerUnchanged

\* The debounce timer of enqueueWebhookLog fires.
LoggerTimerFires ==
    /\ ProcAlive
    /\ logger.timer
    /\ logger' = SendBatch([logger EXCEPT !.timer = FALSE])
    /\ UNCHANGED proc
    /\ LoggerUnchanged

\* axios.post resolves; sendBatch goes on to the rate-limit delay.
LoggerPostSucceeds ==
    /\ ProcAlive
    /\ logger.phase = "posting"
    /\ LET total == FillChunk(logger.chunk, <<>>, 0).length
       IN  logger' = [logger EXCEPT
               !.posted = Append(@, [ids |-> [i \in 1..Len(logger.chunk) |->
                                                 logger.chunk[i].id],
                                     length |-> ContentLength(total)]),
               !.chunk = <<>>,
               !.phase = "delay"]
    /\ UNCHANGED proc
    /\ LoggerUnchanged

\* axios.post rejects (network error, timeout, HTTP error).
LoggerPostFails ==
    /\ ProcAlive
    /\ logger.phase = "posting"
    /\ logger' = [logger EXCEPT !.lines = RequeueFailed(logger.chunk, @),
                                !.chunk = <<>>,
                                !.phase = "idle",
                                !.sending = FALSE,
                                !.requeuedAhead = @ \/ Len(logger.lines) > 0]
    /\ UNCHANGED proc
    /\ LoggerUnchanged

\* The rate-limit delay ends; sendBatch is back at the head of its loop.
LoggerDelayEnds ==
    /\ ProcAlive
    /\ logger.phase = "delay"
    /\ logger' = SendLoop(logger)
    /\ UNCHANGED proc
    /\ LoggerUnchanged

\* The SIGTERM / SIGINT handler: log('main', 'SHUTDOWN', ...), the cleanup
\* interval is cleared, gracefulExit(0).
LoggerSignal ==
    /\ ProcAlive
    /\ \E len \in LineLengths : logger' = Log(logger, "SHUTDOWN", "log", len)
    /\ proc' = GracefulExit(proc, 0)
    /\ LoggerUnchanged

InitLogger ==
    /\ InitQuiet
    /\ \E autoRestart \in BOOLEAN :
          proc = [ProcAtStart(autoRestart, <<>>, FALSE, FALSE)
                     EXCEPT !.started = TRUE, !.running = 1]
    /\ \E excludeFunc \in ExcludeLists, webhookExcludeFunc \in ExcludeLists,
          liveUrl \in BOOLEAN :
          logger = LoggerAtStart(excludeFunc, webhookExcludeFunc, liveUrl)
    /\ windowCall = NoWindowCall
    /\ iteration = NoIteration
    /\ reportError = NoReportError
    /\ validator = NoValidator
    /\ notify = NoNotify

NextLogger ==
    \/ LoggerLog
    \/ LoggerTimerFires
    \/ LoggerPostSucceeds
    \/ LoggerPostFails
    \/ LoggerDelayEnds
    \/ LoggerSignal

SpecLogger == InitLogger /\ [][NextLogger]_vars

\* ========================================================= logger properties
\* The ids of the lines of a sequence of line records.
IdsOf(ls) == [i \in 1..Len(ls) |-> ls[i].id]

\* The ids of the lines delivered, in the order of delivery.
RECURSIVE PostedIds(_)
PostedIds(posts) ==
    IF Len(posts) = 0 THEN <<>>
    ELSE posts[1].ids \o PostedIds(Tail(posts))

\* C22 as stated: when the process has exited on SIGINT / SIGTERM, every
\* line that was queued for webhook delivery has been posted.
C22_QueuedLinesPostedBeforeExit ==
    proc.exited => PostedIds(logger.posted) = [i \in 1..logger.queued |-> i]

\* C24 as stated: a log() call of type 'error' returns an Error object.
C24_ErrorTypeReturnsError ==
    logger.lastType = "error" => logger.lastReturn = "Error"

\* C29: the lines delivered, then the lines of the POST in flight, then the
\* lines still in the buffer are the lines queued, each once and in the
\* order they were logged; so the POSTs that succeed carry the lines in
\* order, none twice, and a failed POST loses and reorders none.
C29_LinesInOrderNoneLost ==
    PostedIds(logger.posted) \o IdsOf(logger.chunk) \o IdsOf(logger.lines)
        = [i \in 1..logger.queued |-> i]

\* A POST failed while lines logged meanwhile were in the buffer, and all
\* the lines queued were delivered afterwards.
C29_Witness ==
    /\ logger.requeuedAhead
    /\ logger.queued >= 2
    /\ Len(PostedIds(logger.posted)) = logger.queued


\* ============================================ api/report-error.js: handler
MaxRequests == 3

\* Error messages of the request bodies: the first two differ in a number
\* only; the last is shorter than five characters.
ErrorMessages == {"timeout after 10 ms", "timeout after 20 ms", "page crashed", "oops"}

\* error.length
MessageLength(error) == IF error = "oops" THEN 4 ELSE 12

\* normalizeError(sanitize(error)): numbers become N, lower case.
NormalizeError(error) ==
    IF error \in {"timeout after 10 ms", "timeout after 20 ms"}
    THEN "timeout after n ms"
    ELSE error

\* generateErrorId(normalized): ten hex digits of the SHA-1 digest, one id
\* per normalized text here.
GenerateErrorId(normalized) ==
    IF normalized = "timeout after n ms" THEN "id-timeout"
    ELSE IF normalized = "page crashed" THEN "id-crashed"
    ELSE "id-other"

ErrorIds == {GenerateErrorId(NormalizeError(e)) : e \in ErrorMessages}

\* A request that has not arrived.
NoRequest ==
    [pc |-> "none",          \* none | inserting | webhook | done
     errorId |-> "",         \* the id computed from the body
     recorded |-> FALSE,     \* the id was in error_events when the insert ran
     first |-> FALSE,        \* firstOccurrence
     called |-> FALSE,       \* fetch(webhook, ...) was called
     status |-> 0,           \* HTTP status of the response
     deduplicated |-> FALSE] \* the response carries deduplicated: true

\* The handler up to the payload check: the status of the early response,
\* 0 when the request goes on to the de-duplication.
EarlyStatus(method, authorized, rateLimited, webhookSet, error) ==
    IF method = "OPTIONS" THEN 200
    ELSE IF method # "POST" THEN 405
    ELSE IF ~authorized THEN 401
    ELSE IF rateLimited THEN 429
    ELSE IF ~webhookSet THEN 503
    ELSE IF MessageLength(error) < 5 THEN 400
    ELSE 0

\* The outcomes of the insert into error_events for an id: it succeeds
\* only when the id is not recorded, fails with code 23505 when it is, and
\* can fail otherwise at any time ("other"), also after the row was written
\* ("lost").
InsertOutcomes(db, errorId) ==
    IF errorId \in db THEN {"23505", "other"} ELSE {"ok", "other", "lost"}

\* isFirstError treats a unique violation as a first occurrence.
IsFirstError_IgnoresDuplicate(outcome) ==
    IF outcome = "other" THEN "throws" ELSE "true"

\* isFirstError(errorId, normalized): true, false or an exception.
IsFirstError(outcome) ==
    IF outcome = "ok" THEN "true"
    ELSE IF outcome = "23505" THEN "false"
    ELSE "throws"

\* "let firstOccurrence = false; try { firstOccurrence = await
\* isFirstError(...) } catch { ... }"
FirstOccurrence(outcome) == IsFirstError(outcome) = "true"

ReportUnchanged ==
    UNCHANGED <<cfgVars, clusterVars, day, jobState, accountSummaries, botVars,
                proc, windowCall, iteration, logger, validator, notify>>

\* A request arrives and the handler runs up to "await isFirstError(...)",
\* or responds early.
ReportArrives(i) ==
    /\ reportError.reqs[i].pc = "none"
    /\ \E method \in {"POST", "GET", "OPTIONS"}, authorized \in BOOLEAN,
          rateLimited \in BOOLEAN, webhookSet \in BOOLEAN, error \in ErrorMessages :
          LET early == EarlyStatus(method, authorized, rateLimited, webhookSet, error)
              id == GenerateErrorId(NormalizeError(error))
          IN  reportError' = [reportError EXCEPT !.reqs[i] =
                  IF early # 0
                  THEN [@ EXCEPT !.pc = "done", !.status = early]
                  ELSE [@ EXCEPT !.pc = "inserting", !.errorId = id]]
    /\ ReportUnchanged

\* The insert settles; the handler answers deduplicated: true, or starts
\* the POST to the Discord webhook.
ReportInsertSettles(i) ==
    LET req == reportError.reqs[i]
    IN  /\ req.pc = "inserting"
        /\ \E outcome \in InsertOutcomes(reportError.db, req.errorId) :
              LET first == FirstOccurrence(outcome)
                  seen == [req EXCEPT !.recorded = req.errorId \in reportError.db,
                                      !.first = first]
              IN  reportError' = [reportError EXCEPT
                      !.db = IF outcome \in {"ok", "lost"}
                            THEN @ \cup {req.errorId} ELSE @,
                      !.reqs[i] =
                          IF first
                          THEN [seen EXCEPT !.pc = "webhook", !.called = TRUE]
                          ELSE [seen EXCEPT !.pc = "done", !.status = 200,
                                            !.deduplicated = TRUE]]
        /\ ReportUnchanged

\* fetch(webhook, ...) settles: the handler answers success, or rejects.
ReportWebhookSettles(i) ==
    /\ reportError.reqs[i].pc = "webhook"
    /\ \E fetched \in BOOLEAN :
          reportError' = [reportError EXCEPT !.reqs[i] =
              [@ EXCEPT !.pc = "done", !.status = IF fetched THEN 200 ELSE 500]]
    /\ ReportUnchanged

InitReport ==
    /\ InitQuiet
    /\ proc = NoProc
    /\ windowCall = NoWindowCall
    /\ iteration = NoIteration
    /\ logger = NoLogger
    /\ validator = NoValidator
    /\ notify = NoNotify
    /\ \E db \in SUBSET ErrorIds :
          reportError = [enabled |-> TRUE, db |-> db,
                         reqs |-> [i \in 1..MaxRequests |-> NoRequest]]

NextReport ==
    \/ \E i \in 1..MaxRequests : ReportArrives(i)
    \/ \E i \in 1..MaxRequests : ReportInsertSettles(i)
    \/ \E i \in 1..MaxRequests : ReportWebhookSettles(i)

SpecReport == InitReport /\ [][NextReport]_vars

\* =================================================== report-error properties
\* The requests that called the Discord webhook for an error id.
WebhookCallers(errorId) ==
    {i \in 1..MaxRequests :
        reportError.reqs[i].called /\ reportError.reqs[i].errorId = errorId}

\* C30: over all requests the webhook is called at most once per error id,
\* and a request that found its id recorded answers deduplicated: true
\* without calling the webhook.
C30_WebhookOncePerErrorId ==
    /\ \A id \in ErrorIds : Cardinality(WebhookCallers(id)) <= 1
    /\ \A i \in 1..MaxRequests :
          LET req == reportError.reqs[i]
          IN  (req.pc = "done" /\ req.recorded) =>
                  req.deduplicated /\ ~req.called

\* Two requests with the same error id, sent with different messages,
\* were handled: one called the webhook, the other was answered as a
\* duplicate.
C30_Witness ==
    \E i, j \in 1..MaxRequests :
        /\ i # j
        /\ reportError.reqs[i].pc = "done"
        /\ reportError.reqs[j].pc = "done"
        /\ reportError.reqs[i].errorId = "id-timeout"
        /\ reportError.reqs[j].errorId = "id-timeout"
        /\ reportError.reqs[i].called
        /\ reportError.reqs[j].recorded
        /\ reportError.reqs[j].deduplicated


\* ============================ api/register.js and the handler's early checks
MaxClock == 4
MaxIssued == 2
MaxOverLimit == 1

\* RATE_LIMIT_WINDOW_MS (60 s), in ticks of the model's clock.
RateLimitWindow == 2

\* RATE_LIMIT_MAX (10) and GLOBAL_MAX (30), scaled down together.
RateLimitMax == 2
GlobalMax == 3

\* TOKEN_TTL_MS (1 hour) and MAX_CLOCK_SKEW (30 s), in ticks.
TokenTtl == 2
MaxClockSkew == 1

IPs == {"ip1", "ip2"}
ClientIds == {"c1", "c2"}

\* The text of an expiry field: a number written in decimal as the template
\* literal writes it, the same number written another way ("017", " 17",
\* "+17"), or text that is not a number.
ExpForms == {"decimal", "other", "text"}

\* Number(expStr): the value whatever the spelling, NaN for other text.
NumberOf(expStr) ==
    [isNaN |-> expStr.form = "text", value |-> expStr.value]

\* `${exp}`: a number is written in decimal.
TemplateOf(exp) == [form |-> "decimal", value |-> exp]

\* crypto.createHmac('sha256', key).update(`${clientId}.${exp}`).digest('hex'):
\* one digest per key and payload.
Hmac(key, clientId, expText) == <<key, clientId, expText>>

MasterSecret == "AUTH_MASTER_SECRET"
NoSignature == <<>>

\* register(): the Authorization header issued at time now for a clientId.
RegisterToken(clientId, now) ==
    LET exp == now + TokenTtl
    IN  [authorization |->
             [scheme |-> "Bearer",
              clientId |-> clientId,
              expStr |-> TemplateOf(exp),
              signature |-> Hmac(MasterSecret, clientId, TemplateOf(exp)),
              extra |-> FALSE],
         expiresAt |-> exp]

VerifyAuthorization_NoExpiry(auth, now, masterSet) ==
    LET exp == NumberOf(auth.expStr)
    IN  IF auth.scheme # "Bearer" THEN "false"
        ELSE IF auth.clientId = "" \/ exp.isNaN \/ exp.value = 0
                \/ auth.signature = NoSignature THEN "false"
        ELSE IF ~masterSet THEN "throws"
        ELSE IF Hmac(MasterSecret, auth.clientId, TemplateOf(exp.value)) = auth.signature
             THEN "true" ELSE "false"

\* verifyAuthorization(auth): "true", "false", or "throws" when createHmac
\* is given an undefined key.  split('.') keeps the first three fields and
\* drops any further one (auth.extra).
VerifyAuthorization(auth, now, masterSet) ==
    LET exp == NumberOf(auth.expStr)
    IN  IF auth.scheme # "Bearer" THEN "false"
        ELSE IF auth.clientId = "" \/ exp.isNaN \/ exp.value = 0
                \/ auth.signature = NoSignature THEN "false"
        ELSE IF now > exp.value + MaxClockSkew THEN "false"
        ELSE IF ~masterSet THEN "throws"
        ELSE IF Hmac(MasterSecret, auth.clientId, TemplateOf(exp.value)) = auth.signature
             THEN "true" ELSE "false"

\* A rateLimitMap without an entry for the IP: count is 0.
NoEntry == [count |-> 0, reset |-> 0]

IsRateLimited_PostIncrement(entry, now) ==
    IF entry.count = 0 \/ entry.reset < now
    THEN [entry |-> [count |-> 1, reset |-> now + RateLimitWindow],
          limited |-> FALSE, opened |-> TRUE]
    ELSE [entry |-> [entry EXCEPT !.count = @ + 1],
          limited |-> entry.count > RateLimitMax, opened |-> FALSE]

\* isRateLimited(ip) on the IP's entry: the entry afterwards, the result,
\* and whether a new window was opened.
IsRateLimited(entry, now) ==
    IF entry.count = 0 \/ entry.reset < now
    THEN [entry |-> [count |-> 1, reset |-> now + RateLimitWindow],
          limited |-> FALSE, opened |-> TRUE]
    ELSE [entry |-> [entry EXCEPT !.count = @ + 1],
          limited |-> entry.count + 1 > RateLimitMax, opened |-> FALSE]

\* globalRateLimit(): globalCount and globalReset afterwards, the result,
\* and whether a new window was opened.
GlobalRateLimit(globalCount, globalReset, now) ==
    LET opened == now > globalReset
        count == (IF opened THEN 0 ELSE globalCount) + 1
    IN  [count |-> count,
         reset |-> IF opened THEN now + RateLimitWindow ELSE globalReset,
         limited |-> count > GlobalMax,
         opened |-> opened]

\* The Authorization headers a client can send: none, another scheme, the
\* ones register issued, and an issued one with a further field appended or
\* with one field changed: another client id, another expiry or another
\* spelling of it, no signature, a signature made without the master secret
\* (also over the changed expiry).
Altered(a) ==
    {[a EXCEPT !.scheme = "Basic"], [a EXCEPT !.extra = TRUE]}
        \cup {[a EXCEPT !.clientId = c] : c \in ClientIds \cup {""}}
        \cup {[a EXCEPT !.expStr.form = f] : f \in ExpForms}
        \cup {[a EXCEPT !.expStr.value = v] : v \in {0, a.expStr.value + 1}}
        \cup {[a EXCEPT !.signature = NoSignature]}
        \cup {[a EXCEPT !.signature = Hmac("guess", a.clientId, a.expStr)]}
        \cup {[a EXCEPT !.expStr.value = @ + 1,
                        !.signature = Hmac("guess", a.clientId,
                                           TemplateOf(a.expStr.value + 1))]}

Headers(issued) == UNION {Altered(t.authorization) : t \in issued}

NoHeader ==
    [scheme |-> "none", clientId |-> "", expStr |-> TemplateOf(0),
     signature |-> NoSignature, extra |-> FALSE]

\* The module state of report-error.js after load at time 0, with what the
\* requests so far passed through (not program state): the requests of the
\* IP's and of the global window that got past the rate limit, and the last
\* request with its outcome.
GateAtStart(masterSet) ==
    [enabled |-> TRUE,
     now |-> 0,                      \* Date.now()
     masterSet |-> masterSet,        \* process.env.AUTH_MASTER_SECRET is set
     issued |-> {},                  \* what register returned so far
     rateLimitMap |-> [ip \in IPs |-> NoEntry],
     globalCount |-> 0,
     globalReset |-> RateLimitWindow,
     ipOpened |-> [ip \in IPs |-> 0],   \* when the IP's window was opened
     ipPassed |-> [ip \in IPs |-> 0],   \* requests of that window that got past
     globalOpened |-> 0,
     globalPassed |-> 0,
     last |-> [auth |-> NoHeader, ip |-> "", at |-> 0, verdict |-> "none",
               status |-> 0, ipFull |-> FALSE, globalFull |-> FALSE]]

GateUnchanged ==
    UNCHANGED <<cfgVars, clusterVars, day, jobState, accountSummaries, botVars,
                proc, windowCall, iteration, logger, validator, notify>>

\* Time passes.
GateTick ==
    /\ reportError.now < MaxClock
    /\ reportError' = [reportError EXCEPT !.now = @ + 1]
    /\ GateUnchanged

\* register(req, res) answers a POST: a token for a fresh clientId, or 500
\* without a master secret.
GateRegister ==
    /\ Cardinality(reportError.issued) < MaxIssued
    /\ \E clientId \in ClientIds :
          reportError' = [reportError EXCEPT
              !.issued = IF reportError.masterSet
                         THEN @ \cup {RegisterToken(clientId, reportError.now)}
                         ELSE @,
              !.last = [auth |-> NoHeader, ip |-> "", at |-> reportError.now,
                        verdict |-> "none",
                        status |-> IF reportError.masterSet THEN 200 ELSE 500,
                        ipFull |-> FALSE, globalFull |-> FALSE]]
    /\ GateUnchanged

\* handler(req, res) up to the payload check: method, authorization, the
\* two rate limits ("isRateLimited(ip) || globalRateLimit()"), webhook.
\* The clients send no header or the one of a token they just registered.
GateRequest ==
    LET g == reportError
        now == g.now
    IN  \E ip \in IPs, method \in {"POST", "GET"}, webhookSet \in BOOLEAN,
           auth \in {NoHeader, RegisterToken("c1", now).authorization} :
          LET verdict == IF method = "POST"
                         THEN VerifyAuthorization(auth, now, g.masterSet)
                         ELSE "none"
              checked == verdict = "true"
              byIp == IsRateLimited(g.rateLimitMap[ip], now)
              global == GlobalRateLimit(g.globalCount, g.globalReset, now)
              globalRan == checked /\ ~byIp.limited
              rateLimited == byIp.limited \/ global.limited
              status == IF verdict = "throws" THEN 500
                        ELSE EarlyStatus(method, checked, rateLimited, webhookSet,
                                         "page crashed")
              passed == checked /\ ~rateLimited
              ipTally == IF byIp.opened THEN 0 ELSE g.ipPassed[ip]
              globalTally == IF global.opened THEN 0 ELSE g.globalPassed
          IN  /\ g.rateLimitMap[ip].count <= RateLimitMax + MaxOverLimit
              /\ g.globalCount <= GlobalMax + MaxOverLimit
              /\ reportError' = [g EXCEPT
                    !.rateLimitMap[ip] = IF checked THEN byIp.entry ELSE @,
                    !.globalCount = IF globalRan THEN global.count ELSE @,
                    !.globalReset = IF globalRan THEN global.reset ELSE @,
                    !.ipOpened[ip] = IF checked /\ byIp.opened THEN now ELSE @,
                    !.ipPassed[ip] = IF checked
                                     THEN ipTally + (IF passed THEN 1 ELSE 0)
                                     ELSE @,
                    !.globalOpened = IF globalRan /\ global.opened THEN now ELSE @,
                    !.globalPassed = IF globalRan
                                     THEN globalTally + (IF passed THEN 1 ELSE 0)
                                     ELSE @,
                    !.last = [auth |-> auth, ip |-> ip, at |-> now,
                              verdict |-> verdict, status |-> status,
                              ipFull |-> checked /\ ~byIp.opened
                                         /\ g.ipPassed[ip] >= RateLimitMax,
                              globalFull |-> checked /\ now <= g.globalReset
                                             /\ g.globalPassed >= GlobalMax]]
              /\ GateUnchanged

\* verifyAuthorization(req.headers.authorization) alone, on any header a
\* client can send.
GateVerify ==
    /\ \E auth \in Headers(reportError.issued) \cup {NoHeader} :
          reportError' = [reportError EXCEPT
              !.last = [auth |-> auth, ip |-> "", at |-> reportError.now,
                        verdict |-> VerifyAuthorization(auth, reportError.now,
                                                        reportError.masterSet),
                        status |-> 0, ipFull |-> FALSE, globalFull |-> FALSE]]
    /\ GateUnchanged

InitGate ==
    /\ InitQuiet
    /\ proc = NoProc
    /\ windowCall = NoWindowCall
    /\ iteration = NoIteration
    /\ logger = NoLogger
    /\ validator = NoValidator
    /\ notify = NoNotify
    /\ \E masterSet \in BOOLEAN : reportError = GateAtStart(masterSet)

NextGate ==
    \/ GateTick
    \/ GateRequest

SpecGate == InitGate /\ [][NextGate]_vars

NextAuth ==
    \/ GateTick
    \/ GateRegister
    \/ GateVerify

SpecAuth == InitGate /\ [][NextAuth]_vars

\* ================================================== early-check properties
\* The last request was an authorized POST that the rate limits let through.
GatePassed == reportError.last.verdict = "true" /\ reportError.last.status # 429

\* C31: of the requests of one rate-limit window at most RateLimitMax from
\* one IP and at most GlobalMax overall get past the rate-limit check; the
\* windows are no longer than RateLimitWindow; a request that arrives when
\* its window is full is answered 429.
C31_RateLimitPerWindow ==
    LET g == reportError
    IN  /\ \A ip \in IPs : g.ipPassed[ip] <= RateLimitMax
        /\ g.globalPassed <= GlobalMax
        /\ GatePassed =>
              /\ g.last.at <= g.ipOpened[g.last.ip] + RateLimitWindow
              /\ g.last.at <= g.globalOpened + RateLimitWindow
        /\ (g.last.ipFull \/ g.last.globalFull) => g.last.status = 429

\* Both limits were reached: one IP used up its window, the global window
\* is used up too, and the request after that was answered 429.
C31_Witness ==
    /\ \E ip \in IPs : reportError.ipPassed[ip] = RateLimitMax
    /\ reportError.globalPassed = GlobalMax
    /\ reportError.last.globalFull
    /\ ~reportError.last.ipFull
    /\ reportError.last.status = 429

\* The last call of verifyAuthorization returned true.
Accepted == reportError.last.verdict = "true"

\* The header carries the client id, the expiry text and the signature of
\* the issued token t.
SameFields(a, t) ==
    /\ a.scheme = "Bearer"
    /\ a.clientId = t.authorization.clientId
    /\ a.expStr = t.authorization.expStr
    /\ a.signature = t.authorization.signature

\* The header carries the client id and the signature of the issued token
\* t, and an expiry field that reads as t's expiry.
SameValues(a, t) ==
    /\ a.scheme = "Bearer"
    /\ a.clientId = t.authorization.clientId
    /\ a.expStr.form # "text"
    /\ a.expStr.value = t.expiresAt
    /\ a.signature = t.authorization.signature

InTime(t) == reportError.last.at <= t.expiresAt + MaxClockSkew

\* C32 as stated: a header is accepted exactly when its client id, expiry
\* field and signature are those of a token register issued whose expiry
\* plus the clock skew has not passed; any change to one of the three
\* fields makes it rejected.
C32_AcceptsExactlyIssuedFields ==
    reportError.last.verdict \in {"true", "false"} =>
        (Accepted <=>
            \E t \in reportError.issued : SameFields(reportError.last.auth, t) /\ InTime(t))

\* C32, amended: a header is accepted exactly when its client id and
\* signature are those of a token register issued, its expiry field reads
\* as the number that token was signed with, and that expiry plus the clock
\* skew has not passed.  Without the master secret nothing is accepted.
C32_AcceptsExactlyIssuedValues ==
    /\ reportError.last.verdict \in {"true", "false"} =>
          (Accepted <=>
              \E t \in reportError.issued :
                  SameValues(reportError.last.auth, t) /\ InTime(t))
    /\ reportError.last.verdict = "throws" => ~reportError.masterSet

\* An issued token was accepted unchanged at the last moment, expiresAt plus
\* the clock skew.
C32_Witness ==
    /\ Accepted
    /\ \E t \in reportError.issued :
          /\ reportError.last.auth = t.authorization
          /\ reportError.last.at = t.expiresAt + MaxClockSkew

\* ============================== security standby and the run's notifications
MaxEngageCalls == 3

\* Reasons the flows pass to engageGlobalStandby.
EngageReasons == {"recovery-mismatch", "login-blocked"}

\* engageGlobalStandby without its "already active" check.
StandbyAfterEngage_Always(gs, reason) == [active |-> TRUE, reason |-> reason]

\* engageGlobalStandby(reason, email): this.globalStandby afterwards.
StandbyAfterEngage(gs, reason) ==
    IF gs.active THEN gs ELSE [active |-> TRUE, reason |-> reason]

\* engageGlobalStandby(reason, email): the alerts it is awaiting afterwards;
\* a call that finds the standby active returns before sending one.
AlertsAfterEngage(gs, pending, reason) ==
    IF gs.active THEN pending ELSE Append(pending, reason)

\* One process from its account loop to its end: a single process, or a
\* worker followed by the primary's finishRun.
NotifyAtStart(isWorker) ==
    [enabled |-> TRUE,
     isWorker |-> isWorker,   \* config.clusters > 1 && !cluster.isPrimary
     phase |-> "loop",        \* loop | after_loop | security | returned | rejected | exited | finished
     engageCalls |-> 0,       \* calls of engageGlobalStandby so far
     pendingAlerts |-> <<>>,  \* alerts engageGlobalStandby is awaiting
     events |-> <<>>]         \* notifications delivered, in order

NotifyUnchanged ==
    UNCHANGED <<cfgVars, clusterVars, day, jobState, accountSummaries, pc, runs,
                pass, idx, accountDayKey, banned, dState, mState, obsVars,
                proc, windowCall, iteration, logger, reportError, validator>>

\* A flow of the current account calls bot.engageGlobalStandby(reason).
NotifyEngage ==
    /\ notify.phase = "loop"
    /\ notify.engageCalls < MaxEngageCalls
    /\ \E reason \in EngageReasons :
          /\ globalStandby' = StandbyAfterEngage(globalStandby, reason)
          /\ notify' = [notify EXCEPT
                 !.engageCalls = @ + 1,
                 !.pendingAlerts = AlertsAfterEngage(globalStandby, @, reason)]
    /\ UNCHANGED <<bannedTriggered, compromisedModeActive>>
    /\ NotifyUnchanged

\* sendGlobalSecurityStandbyAlert of an engageGlobalStandby call settles:
\* the alert was delivered, or ConclusionWebhook threw and it was logged.
NotifyAlertSettles ==
    /\ notify.phase \notin {"exited", "finished"}
    /\ notify.pendingAlerts # <<>>
    /\ \E delivered \in BOOLEAN :
          notify' = [notify EXCEPT
              !.pendingAlerts = Tail(@),
              !.events = IF delivered THEN Append(@, "alert:engage") ELSE @]
    /\ UNCHANGED <<globalStandby, bannedTriggered, compromisedModeActive>>
    /\ NotifyUnchanged

\* A flow of the current account sets compromisedModeActive.
NotifyCompromised ==
    /\ notify.phase = "loop"
    /\ ~compromisedModeActive
    /\ compromisedModeActive' = TRUE
    /\ UNCHANGED <<globalStandby, bannedTriggered, notify>>
    /\ NotifyUnchanged

\* An account ends banned: bannedTriggered and globalStandby are set, and
\* the loop breaks at its head.
NotifyBan ==
    /\ notify.phase = "loop"
    /\ bannedTriggered' = 1
    /\ globalStandby' = [active |-> TRUE, reason |-> "banned"]
    /\ notify' = [notify EXCEPT !.phase = "after_loop"]
    /\ UNCHANGED compromisedModeActive
    /\ NotifyUnchanged

\* The loop ends without a ban.
NotifyLoopEnds ==
    /\ notify.phase = "loop"
    /\ notify' = [notify EXCEPT !.phase = "after_loop"]
    /\ UNCHANGED <<globalStandby, bannedTriggered, compromisedModeActive>>
    /\ NotifyUnchanged

\* After the loop: a worker sends its summaries to the primary; a single
\* process awaits sendConclusion, whose exception rejects runTasks.
NotifyConclusion ==
    /\ notify.phase = "after_loop"
    /\ IF notify.isWorker
       THEN notify' = [notify EXCEPT !.phase = "security",
                                     !.events = Append(@, "summary")]
       ELSE \E conclusion \in ConclusionOutcomes :
               notify' = IF conclusion = "sent"
                         THEN [notify EXCEPT !.phase = "security",
                                             !.events = Append(@, "conclusion")]
                         ELSE [notify EXCEPT !.phase = "rejected"]
    /\ UNCHANGED <<globalStandby, bannedTriggered, compromisedModeActive>>
    /\ NotifyUnchanged

\* "if (this.compromisedModeActive || this.globalStandby.active)": with a
\* ban recorded the security alert is awaited; then runTasks returns.
NotifySecurity ==
    /\ notify.phase = "security"
    /\ IF (compromisedModeActive \/ globalStandby.active) /\ bannedTriggered # 0
       THEN \E delivered \in BOOLEAN :
               notify' = [notify EXCEPT
                   !.phase = "returned",
                   !.events = IF delivered THEN Append(@, "alert:ban") ELSE @]
       ELSE notify' = [notify EXCEPT !.phase = "returned"]
    /\ UNCHANGED <<globalStandby, bannedTriggered, compromisedModeActive>>
    /\ NotifyUnchanged

\* The worker's run() has returned and the worker exits.
NotifyWorkerExits ==
    /\ notify.isWorker
    /\ notify.phase = "returned"
    /\ notify' = [notify EXCEPT !.phase = "exited"]
    /\ UNCHANGED <<globalStandby, bannedTriggered, compromisedModeActive>>
    /\ NotifyUnchanged

\* The primary's 'exit' handler finds no worker left: finishRun calls
\* sendConclusion inside try / catch.
NotifyFinishRun ==
    /\ notify.phase = "exited"
    /\ \E conclusion \in ConclusionOutcomes :
          notify' = [notify EXCEPT
              !.phase = "finished",
              !.events = IF conclusion = "sent" THEN Append(@, "conclusion") ELSE @]
    /\ UNCHANGED <<globalStandby, bannedTriggered, compromisedModeActive>>
    /\ NotifyUnchanged

InitNotify ==
    /\ InitQuiet
    /\ proc = NoProc
    /\ windowCall = NoWindowCall
    /\ iteration = NoIteration
    /\ logger = NoLogger
    /\ reportError = NoReportError
    /\ validator = NoValidator
    /\ \E isWorker \in BOOLEAN : notify = NotifyAtStart(isWorker)

NextNotify ==
    \/ NotifyEngage
    \/ NotifyAlertSettles
    \/ NotifyCompromised
    \/ NotifyBan
    \/ NotifyLoopEnds
    \/ NotifyConclusion
    \/ NotifySecurity
    \/ NotifyWorkerExits
    \/ NotifyFinishRun

SpecNotify == InitNotify /\ [][NextNotify]_vars

\* ======================================================= standby properties
\* C25: a call of engageGlobalStandby made while the standby is active changes
\* no state (the reason recorded stays) and starts no alert, also while the
\* alert of the first call is still being sent.
C25_EngageIsIdempotent ==
    [][(notify'.engageCalls > notify.engageCalls /\ globalStandby.active) =>
          /\ globalStandby' = globalStandby
          /\ notify'.pendingAlerts = notify.pendingAlerts
          /\ notify'.events = notify.events
          /\ UNCHANGED <<bannedTriggered, compromisedModeActive>>]_vars

\* engageGlobalStandby was called again while the alert of the call that
\* engaged the standby was still in flight.
C25_Witness ==
    /\ notify.engageCalls >= 2
    /\ globalStandby.active
    /\ Len(notify.pendingAlerts) = 1

\* C26 as stated: the security alert of a ban is delivered only after the
\* run's conclusion summary.
C26_BanAlertAfterConclusion ==
    \A i \in 1..Len(notify.events) :
        notify.events[i] = "alert:ban" =>
            \E j \in 1..(i - 1) : notify.events[j] = "conclusion"


\* ======================================= StartupValidator and initialize()
MaxFindings == 2

\* One bootstrap, from the validation checks to the call of run().
ValidatorAtStart(skipValidation, scheduling) ==
    [enabled |-> TRUE,
     skipValidation |-> skipValidation, \* config.skipValidation
     scheduling |-> scheduling,         \* config.scheduling.enabled
     errors |-> <<>>,                   \* this.errors: the blocking flag of each
     warnings |-> 0,                    \* this.warnings.length
     phase |-> IF skipValidation THEN "validated" ELSE "checks",
                                        \* checks | validated | initialized | done
     result |-> "none",                 \* validate(): none | true | throws
     initialize |-> "none",             \* initialize(): none | returned | throws
     runCalled |-> FALSE,               \* rewardsBot.run() was called
     exitCode |-> <<>>]                 \* the code passed to gracefulExit, if any

\* "this.errors.filter(e => e.blocking === true)"
BlockingErrors(errors) == {i \in 1..Len(errors) : errors[i]}

\* validate() throwing on any recorded error.
ValidateResult_AnyError(errors) ==
    IF Len(errors) > 0 THEN "throws" ELSE "true"

\* validate(config, accounts), after the checks and displayResults: it
\* throws when a blocking error was recorded and returns true otherwise.
ValidateResult(errors) ==
    IF Cardinality(BlockingErrors(errors)) > 0 THEN "throws" ELSE "true"

ValidatorUnchanged ==
    UNCHANGED <<cfgVars, clusterVars, day, jobState, accountSummaries, botVars,
                proc, windowCall, iteration, logger, reportError, notify>>

\* A check calls addError(category, message, fix, docsLink, blocking).
ValidatorAddError ==
    /\ validator.phase = "checks"
    /\ Len(validator.errors) < MaxFindings
    /\ \E blocking \in BOOLEAN :
          validator' = [validator EXCEPT !.errors = Append(@, blocking)]
    /\ ValidatorUnchanged

\* A check calls addWarning(category, message, fix, docsLink).
ValidatorAddWarning ==
    /\ validator.phase = "checks"
    /\ validator.warnings < MaxFindings
    /\ validator' = [validator EXCEPT !.warnings = @ + 1]
    /\ ValidatorUnchanged

\* The checks are over: validate() displays the results and settles.
ValidatorValidate ==
    /\ validator.phase = "checks"
    /\ validator' = [validator EXCEPT !.phase = "validated",
                                      !.result = ValidateResult(validator.errors)]
    /\ ValidatorUnchanged

\* initialize(): the exception of validate() is logged and rethrown;
\* otherwise the job state is set up and initialize() returns.
ValidatorInitialize ==
    /\ validator.phase = "validated"
    /\ validator' = [validator EXCEPT
           !.phase = "initialized",
           !.initialize = IF validator.result = "throws" THEN "throws" ELSE "returned"]
    /\ ValidatorUnchanged

\* bootstrap(): "await rewardsBot.initialize(); await rewardsBot.run()"
\* inside try / catch.  The exception of initialize() skips run(): a
\* one-time execution calls gracefulExit(1), scheduled mode logs it.
ValidatorBootstrap ==
    /\ validator.phase = "initialized"
    /\ validator' = [validator EXCEPT
           !.phase = "done",
           !.runCalled = validator.initialize = "returned",
           !.exitCode = IF validator.initialize = "throws" /\ ~validator.scheduling
                        THEN <<1>> ELSE <<>>]
    /\ ValidatorUnchanged

InitValidator ==
    /\ InitQuiet
    /\ proc = NoProc
    /\ windowCall = NoWindowCall
    /\ iteration = NoIteration
    /\ logger = NoLogger
    /\ reportError = NoReportError
    /\ notify = NoNotify
    /\ \E skipValidation \in BOOLEAN, scheduling \in BOOLEAN :
          validator = ValidatorAtStart(skipValidation, scheduling)

NextValidator ==
    \/ ValidatorAddError
    \/ ValidatorAddWarning
    \/ ValidatorValidate
    \/ ValidatorInitialize
    \/ ValidatorBootstrap

SpecValidator == InitValidator /\ [][NextValidator]_vars

\* ===================================================== validator properties
\* C28: validate() throws exactly when an error marked blocking was
\* recorded and returns true with warnings and non-blocking errors only;
\* when it throws, initialize() throws and run() is not called.
C28_ValidateThrowsIffBlocking ==
    /\ validator.result # "none" =>
          /\ validator.result = "throws" <=> (\E i \in 1..Len(validator.errors) :
                                                  validator.errors[i])
          /\ validator.result = "true" <=> (\A i \in 1..Len(validator.errors) :
                                                ~validator.errors[i])
    /\ validator.result = "throws" =>
          /\ validator.initialize \in {"none", "throws"}
          /\ ~validator.runCalled
    /\ (validator.result = "true" /\ validator.phase = "done") => validator.runCalled

\* Validation recorded a non-blocking error and a warning, returned true,
\* and the bootstrap went on to run().
C28_Witness ==
    /\ validator.result = "true"
    /\ Len(validator.errors) > 0
    /\ validator.warnings > 0
    /\ validator.runCalled

====
